---- MODULE Spec2Model ----
(***************************************************************************)
(* Model of the drone-mesh-mapper firmware.                                *)
(*                                                                         *)
(*   Head end (main_home.cpp): line classification, the flat JSON field    *)
(*   extractor, the dedup table (find / alloc / stale sweep) and the       *)
(*   cooperative main loop that drives them.                               *)
(*                                                                         *)
(*   Detector node (main_remote.cpp): the UAV tracking table (next_uav),   *)
(*   the WiFi and BLE capture callbacks, the print queue and the printer   *)
(*   task.                                                                 *)
(*                                                                         *)
(* Text is modelled as sequences of one-character strings, so that the     *)
(* classification and the extraction are computed the way the code does.   *)
(***************************************************************************)
EXTENDS Integers, Sequences, FiniteSets, TLC

(***************************************************************************)
(* Program constants                                                       *)
(***************************************************************************)
DEDUP_MAX_DRONES == 16
DEDUP_WINDOW_MS == 500
DEDUP_STALE_MS == 30000
CLEANUP_INTERVAL_MS == 10000
MAC_BUF_SIZE == 18
NODE_BUF_SIZE == 8
UINT8_MOD == 256
MAX_UAVS == 8
ODID_ID_SIZE == 20
ODID_MESSAGE_SIZE == 25
BOOT_DELAY_MS == 3000
JSON_FIXED_LEN == 117

HOP_INTERVAL_MS == 100

SEND_INTERVAL_MS == 5000

PILOT_DELAY_MS == 1000

DRONE_FIXED_LEN == 13

LINK_FIXED_LEN == 29

PILOT_FIXED_LEN == 35

HEARTBEAT_MS == 60000

TRACKED_MS == 120000

SETUP_CHANNEL == 6

(***************************************************************************)
(* Bounds of the model                                                     *)
(***************************************************************************)
\* number of lines the head end reads in one run
MaxLines == 3
\* number of clock advances in one run
MaxTicks == 3
\* number of clock advances in one capacity run
MaxTicksFull == 2

(***************************************************************************)
(* Head-end state                                                          *)
(***************************************************************************)
VARIABLES
    clock,          \* millis(): the millisecond clock
    hpc,            \* position of loop(): "top" or "body"
    loopNow,        \* loop()'s local `now`
    lastCleanup,
    dedupTable,     \* slot index -> dedup_entry
    stats,          \* msgReceived, msgForwarded, msgSuppressed, msgNonJson
    usbOut,         \* the line processLine wrote to Serial in the last step (<<>>: none)
    nTicks,         \* clock advances so far (bounds the run)
    nFill,          \* background drones reported so far (bounds the run)
    ev,             \* what the last step did (observation only)
    fwdAt           \* extracted MAC -> clock of its last forwarded record, -1 when none

homeVars == <<clock, hpc, loopNow, lastCleanup, dedupTable, stats, usbOut,
              nTicks, nFill, ev, fwdAt>>

(***************************************************************************)
(* Detector-node state                                                     *)
(***************************************************************************)
VARIABLES
    nodeClock,      \* millis() of the detector node
    uavs,           \* slot index -> uav_data
    printQueue,     \* the FreeRTOS queue: snapshots in arrival order
    nodeUsb,        \* the line the printer task last wrote to Serial
    nodeMesh,       \* the line the printer task last wrote to Serial1 (<<>>: skipped)
    enqCount,       \* snapshots accepted by the queue so far (observation only)
    dropCount,      \* snapshots the full queue refused so far (observation only)
    emitCount,      \* snapshots the printer task has taken so far (observation only)
    lastItem,       \* the queue item the printer task took last (observation only)
    nev,            \* what the last callback or printer turn did, and the free
                    \* space the printer turn was told (observation only)
    nFrames,        \* callbacks run so far (bounds the run)
    nNodeTicks      \* clock advances so far (bounds the run)

\* the detector node's loop(): channel hopping and heartbeat
VARIABLES
    on5GHz,         \* the band flag of hopChannel
    chanIdx24,      \* cursor into channels_24g
    chanIdx5,       \* cursor into channels_5g
    lastHop,        \* millis() of the loop iteration that hopped last
    radioChannel,   \* the channel last passed to esp_wifi_set_channel
    last_status,    \* millis() of the loop iteration that printed the last heartbeat
    nodeHb,         \* "tracked" of the last heartbeat line (-1: none yet)
    hopBand,        \* the band hopChannel selected last (observation only)
    nHops,          \* hopChannel calls so far (observation; bounds the run)
    hopLog          \* the channels of the latest hops, oldest first (observation)

hopVars == <<on5GHz, chanIdx24, chanIdx5, lastHop, radioChannel, last_status,
             nodeHb, hopBand, nHops, hopLog>>

\* the map-link printer of the remoteid-mesh-dualcore-c5 build
VARIABLES
    lastSendTime,   \* millis() of the last snapshot that passed the 5 s throttle
    meshLog         \* the messages written to Serial1 so far: kind, snapshot,
                    \* time of the write (observation only)

linkVars == <<lastSendTime, meshLog>>

\* the BLE callback while another task may run inside it
VARIABLES
    bleCall         \* where DroneIDCallback::onResult stands: idle, or with its
                    \* slot selected, or with the slot written; its
                    \* advertisement and its slot

raceVars == <<bleCall>>

\* the decode buffer of wifiCallback
VARIABLES
    UAS_data        \* static ODID_UAS_Data UAS_data: the validity flag and the
                    \* content of each of the four messages

decodeVars == <<UAS_data>>

nodeVars == <<nodeClock, uavs, printQueue, nodeUsb, nodeMesh, enqCount, dropCount,
              emitCount, lastItem, nev, nFrames, nNodeTicks, hopVars, linkVars,
              raceVars, decodeVars>>

vars == <<homeVars, nodeVars>>

(***************************************************************************)
(* uint32_t subtraction.  Every clock value of the model is below 2^31, so *)
(* a - b with a >= b is exact; with a < b the C result is 2^32 - (b - a),  *)
(* which is above 2^31 and so above every threshold the code compares it   *)
(* with.  U32_WRAPPED stands for that value.                               *)
(***************************************************************************)
U32_WRAPPED == 2147483647

U32Sub(a, b) == IF a >= b THEN a - b ELSE U32_WRAPPED

(***************************************************************************)
(* Text helpers                                                            *)
(***************************************************************************)
Q == "\""

MatchAt(s, p, i) ==
    /\ i + Len(p) - 1 <= Len(s)
    /\ \A k \in 1..Len(p) : s[i + k - 1] = p[k]

\* strstr: index (from 1) of the first occurrence of p in s, 0 when absent
strstr(s, p) ==
    LET hits == {i \in 1..Len(s) : MatchAt(s, p, i)}
    IN  IF hits = {} THEN 0 ELSE CHOOSE i \in hits : \A j \in hits : i <= j

RECURSIVE CopyValue(_, _, _, _)
\* the copy loop of extractJsonString: from position p, at most outSize-1 chars,
\* up to the closing quote or the end of the text
CopyValue(json, p, out, outSize) ==
    IF p <= Len(json) /\ json[p] # Q /\ Len(out) < outSize - 1
    THEN CopyValue(json, p + 1, Append(out, json[p]), outSize)
    ELSE out

\* extractJsonString: the value copied into `out` (the code returns its length;
\* when the key is absent `out` stays as the caller zeroed it: empty)
extractJsonString(json, key, outSize) ==
    LET pattern == <<Q>> \o key \o <<Q, ":", Q>>
        p == strstr(json, pattern)
    IN  IF p = 0 THEN <<>>
        ELSE CopyValue(json, p + Len(pattern), <<>>, outSize)

IsBlank(c) == c = " " \/ c = "\t"

RECURSIVE SkipBlanksFwd(_, _)
SkipBlanksFwd(line, start) ==
    IF start <= Len(line) /\ IsBlank(line[start])
    THEN SkipBlanksFwd(line, start + 1) ELSE start

RECURSIVE SkipBlanksBack(_, _, _)
SkipBlanksBack(line, start, end) ==
    IF end > start /\ IsBlank(line[end])
    THEN SkipBlanksBack(line, start, end - 1) ELSE end

\* variant: the brace test without skipping the blanks
looksLikeJSONNoTrim(line) ==
    IF Len(line) < 2 THEN FALSE ELSE line[1] = "{" /\ line[Len(line)] = "}"

looksLikeJSON(line) ==
    IF Len(line) < 2 THEN FALSE
    ELSE LET start == SkipBlanksFwd(line, 1)
         IN  IF start > Len(line) THEN FALSE
             ELSE LET end == SkipBlanksBack(line, start, Len(line))
                  IN  line[start] = "{" /\ line[end] = "}"

KEY_MAC == <<"m", "a", "c">>
KEY_NODE == <<"n", "o", "d", "e", "_", "i", "d">>

(***************************************************************************)
(* Lines the mesh transport delivers in the model                          *)
(***************************************************************************)
Field(key, val) == <<Q>> \o key \o <<Q, ":", Q>> \o val \o <<Q>>

Obj(body) == <<"{">> \o body \o <<"}">>

Record(mac, node) == Obj(Field(KEY_MAC, mac) \o <<",">> \o Field(KEY_NODE, node))

MAC_X == <<"a", "a">>
MAC_Y == <<"b", "b">>
NODE_1 == <<"N", "1">>
NODE_2 == <<"N", "2">>

\* the MACs of the background drones: one more than the table has slots
FillTag == <<"a", "b", "c", "d", "e", "f", "g", "h",
             "i", "j", "k", "l", "m", "n", "o", "p", "q">>

FillMac(k) == <<"f", FillTag[k]>>

FillLine(k) == Record(FillMac(k), NODE_1)

LINE_NO_MAC == Obj(Field(<<"h", "b">>, <<"o", "k">>))
LINE_EMPTY_MAC == Obj(Field(KEY_MAC, <<>>))
LINE_TEXT == <<"I", "N", "F", "O">>
\* a record of X followed by trailing text: not brace-delimited
LINE_TEXT_MAC == Record(MAC_X, NODE_2) \o <<" ", "x">>
\* a record of X between blanks: brace-delimited after trimming
LINE_PADDED == <<" ">> \o Record(MAC_X, NODE_2) \o <<"\t">>

FocusLines == {Record(MAC_X, NODE_1), LINE_PADDED, Record(MAC_Y, NODE_1),
               LINE_NO_MAC, LINE_TEXT_MAC}

\* lines the claims also try in every state
ProbeLines == FocusLines \cup {LINE_EMPTY_MAC, LINE_TEXT}

\* the lines of the capacity runs, beside those of the background drones
FullLines == {Record(MAC_X, NODE_1), LINE_NO_MAC}

AllLines == ProbeLines \cup {FillLine(k) : k \in 1..Len(FillTag)}
                       \cup {Record(MAC_X, NODE_2)}

\* what the classifier and the extractor yield for each line of the model
LineInfo == [l \in AllLines |-> [json |-> looksLikeJSON(l),
                                 mac |-> extractJsonString(l, KEY_MAC, MAC_BUF_SIZE),
                                 node |-> extractJsonString(l, KEY_NODE, NODE_BUF_SIZE)]]

MacOf(line) == LineInfo[line].mac

NodeOf(line) == LineInfo[line].node

MacKeys == {MAC_X, MAC_Y} \cup {FillMac(k) : k \in 1..Len(FillTag)}

\* clock advances of the model: 100 and 100 + 500 are the example of the
\* window, 29500 + 500 = DEDUP_STALE_MS, and 1 puts an entry or a sweep one
\* millisecond to either side of a threshold
Deltas == {1, 100, 500, 29500}

\* clock advances of the capacity runs: one millisecond, and past the stale threshold
FullDeltas == {1, 30001}

(***************************************************************************)
(* Dedup table                                                             *)
(***************************************************************************)
Slots == 0..(DEDUP_MAX_DRONES - 1)

\* a dedup_entry after memset(.., 0, ..)
ZeroEntry == [mac |-> <<>>, windowStart |-> 0, lastSeen |-> 0, active |-> FALSE,
              firstNodeId |-> <<>>, dupsBlocked |-> 0]

\* strncpy(dst, src, n): at most n characters of src
strncpy(src, n) == SubSeq(src, 1, IF Len(src) < n THEN Len(src) ELSE n)

\* variant: only the first slot is compared
dedupFindSlotZero(table, mac) ==
    IF table[0].active /\ table[0].mac = mac THEN 0 ELSE -1

\* dedupFind: the first active slot holding mac, -1 for nullptr
dedupFind(table, mac) ==
    LET hits == {i \in Slots : table[i].active /\ table[i].mac = mac}
    IN  IF hits = {} THEN -1 ELSE CHOOSE i \in hits : \A j \in hits : i <= j

RECURSIVE ScanOldest(_, _, _, _)
\* the eviction scan of dedupAlloc: strict <, so the lowest index wins a tie
ScanOldest(table, i, oldestTime, oldestIdx) ==
    IF i >= DEDUP_MAX_DRONES THEN oldestIdx
    ELSE IF table[i].lastSeen < oldestTime
         THEN ScanOldest(table, i + 1, table[i].lastSeen, i)
         ELSE ScanOldest(table, i + 1, oldestTime, oldestIdx)

\* variant: a full table always gives up slot 0
AllocIdxSlotZero(table) ==
    LET free == {i \in Slots : ~table[i].active}
    IN  IF free # {} THEN CHOOSE i \in free : \A j \in free : i <= j ELSE 0

\* the slot dedupAlloc hands out: the first inactive one, else the oldest
AllocIdx(table) ==
    LET free == {i \in Slots : ~table[i].active}
    IN  IF free # {} THEN CHOOSE i \in free : \A j \in free : i <= j
        ELSE ScanOldest(table, 0, U32_WRAPPED, 0)

\* dedupAlloc: the slot is zeroed, tagged with mac and activated
dedupAlloc(table, mac) ==
    LET idx == AllocIdx(table)
    IN  [table EXCEPT ![idx] = [ZeroEntry EXCEPT !.mac = strncpy(mac, MAC_BUF_SIZE - 1),
                                                 !.active = TRUE]]

\* variant: an entry counts as stale one sweep interval later
StaleAtLate(e, now) ==
    e.active /\ U32Sub(now, e.lastSeen) > DEDUP_STALE_MS + CLEANUP_INTERVAL_MS

StaleAt(e, now) == e.active /\ U32Sub(now, e.lastSeen) > DEDUP_STALE_MS

dedupCleanStale(table, now) ==
    [i \in Slots |-> IF StaleAt(table[i], now)
                     THEN [table[i] EXCEPT !.active = FALSE] ELSE table[i]]

ActiveCount(table) == Cardinality({i \in Slots : table[i].active})

(***************************************************************************)
(* Observation of the last step                                            *)
(***************************************************************************)
\* op: the path taken; mac: the extracted MAC; slot: the entry used;
\* prevFwd: clock of the previous forwarded record of that MAC (-1: none);
\* full: whether every slot was active before the step
NoEv == [op |-> "none", mac |-> <<>>, slot |-> -1, prevFwd |-> -1, full |-> FALSE]

Ev(op, mac, slot, prevFwd, full) ==
    [op |-> op, mac |-> mac, slot |-> slot, prevFwd |-> prevFwd, full |-> full]

IsFull(table) == \A i \in Slots : table[i].active

(***************************************************************************)
(* Head end: processLine / processJsonLine                                 *)
(*                                                                         *)
(* h is the part of the state a line can change:                           *)
(*   [table, stats, out, ev, fwdAt]                                        *)
(***************************************************************************)
\* variant: the window test with > in place of >=
WindowExpiredStrict(now, windowStart) == U32Sub(now, windowStart) > DEDUP_WINDOW_MS

WindowExpired(now, windowStart) == U32Sub(now, windowStart) >= DEDUP_WINDOW_MS

\* the path processLine / processJsonLine take for a line
PathOf(table, line, now) ==
    IF ~LineInfo[line].json THEN "nonjson"
    ELSE IF Len(MacOf(line)) = 0 THEN "nomac"
    ELSE LET idx == dedupFind(table, MacOf(line))
         IN  IF idx = -1 THEN "new"
             ELSE IF WindowExpired(now, table[idx].windowStart) THEN "window"
             ELSE "suppress"

MESH_PREFIX == <<"[", "M", "E", "S", "H", "]", " ">>

\* processLine, else branch: not brace-delimited
NonJsonLine(h, line, now) ==
    [h EXCEPT !.out = MESH_PREFIX \o line,
              !.stats.msgNonJson = @ + 1,
              !.ev = Ev("nonjson", <<>>, -1, -1, IsFull(h.table))]

\* variant: a record without MAC is counted and dropped
JsonNoMacDropped(h, line, now) ==
    [h EXCEPT !.out = <<>>,
              !.stats.msgSuppressed = @ + 1,
              !.ev = Ev("nomac", <<>>, -1, -1, IsFull(h.table))]

\* processJsonLine: no "mac" value extracted
JsonNoMac(h, line, now) ==
    [h EXCEPT !.out = line,
              !.stats.msgForwarded = @ + 1,
              !.ev = Ev("nomac", <<>>, -1, -1, IsFull(h.table))]

\* variant: the new entry does not record the reporting node
JsonNewDroneNoNode(h, line, now) ==
    LET mac == MacOf(line)
        idx == AllocIdx(h.table)
        t1 == dedupAlloc(h.table, mac)
    IN  [h EXCEPT !.table = [t1 EXCEPT ![idx].windowStart = now,
                                       ![idx].lastSeen = now,
                                       ![idx].dupsBlocked = 0],
                  !.stats.msgReceived = @ + 1,
                  !.stats.msgForwarded = @ + 1,
                  !.out = line,
                  !.ev = Ev("new", mac, idx, h.fwdAt[mac], IsFull(h.table)),
                  !.fwdAt[mac] = now]

\* processJsonLine: dedupFind returned nullptr
JsonNewDrone(h, line, now) ==
    LET mac == MacOf(line)
        idx == AllocIdx(h.table)
        t1 == dedupAlloc(h.table, mac)
    IN  [h EXCEPT !.table = [t1 EXCEPT ![idx].windowStart = now,
                                       ![idx].lastSeen = now,
                                       ![idx].dupsBlocked = 0,
                                       ![idx].firstNodeId =
                                           strncpy(NodeOf(line), NODE_BUF_SIZE - 1)],
                  !.stats.msgReceived = @ + 1,
                  !.stats.msgForwarded = @ + 1,
                  !.out = line,
                  !.ev = Ev("new", mac, idx, h.fwdAt[mac], IsFull(h.table)),
                  !.fwdAt[mac] = now]

\* variant: the new window starts without lastSeen being brought up to date
JsonNewWindowStaleSeen(h, line, now) ==
    LET mac == MacOf(line)
        idx == dedupFind(h.table, mac)
    IN  [h EXCEPT !.table[idx].windowStart = now,
                  !.table[idx].dupsBlocked = 0,
                  !.table[idx].firstNodeId = strncpy(NodeOf(line), NODE_BUF_SIZE - 1),
                  !.stats.msgReceived = @ + 1,
                  !.stats.msgForwarded = @ + 1,
                  !.out = line,
                  !.ev = Ev("window", mac, idx, h.fwdAt[mac], IsFull(h.table)),
                  !.fwdAt[mac] = now]

\* variant: the new window keeps the node that opened the previous one
JsonNewWindowKeepNode(h, line, now) ==
    LET mac == MacOf(line)
        idx == dedupFind(h.table, mac)
    IN  [h EXCEPT !.table[idx].lastSeen = now,
                  !.table[idx].windowStart = now,
                  !.table[idx].dupsBlocked = 0,
                  !.stats.msgReceived = @ + 1,
                  !.stats.msgForwarded = @ + 1,
                  !.out = line,
                  !.ev = Ev("window", mac, idx, h.fwdAt[mac], IsFull(h.table)),
                  !.fwdAt[mac] = now]

\* processJsonLine: known drone, window expired
JsonNewWindow(h, line, now) ==
    LET mac == MacOf(line)
        idx == dedupFind(h.table, mac)
    IN  [h EXCEPT !.table[idx].lastSeen = now,
                  !.table[idx].windowStart = now,
                  !.table[idx].dupsBlocked = 0,
                  !.table[idx].firstNodeId = strncpy(NodeOf(line), NODE_BUF_SIZE - 1),
                  !.stats.msgReceived = @ + 1,
                  !.stats.msgForwarded = @ + 1,
                  !.out = line,
                  !.ev = Ev("window", mac, idx, h.fwdAt[mac], IsFull(h.table)),
                  !.fwdAt[mac] = now]

\* variant: a suppressed record restarts the window
JsonSuppressedExtends(h, line, now) ==
    LET mac == MacOf(line)
        idx == dedupFind(h.table, mac)
    IN  [h EXCEPT !.table[idx].lastSeen = now,
                  !.table[idx].windowStart = now,
                  !.table[idx].dupsBlocked = (@ + 1) % UINT8_MOD,
                  !.stats.msgReceived = @ + 1,
                  !.stats.msgSuppressed = @ + 1,
                  !.out = <<>>,
                  !.ev = Ev("suppress", mac, idx, h.fwdAt[mac], IsFull(h.table))]

\* processJsonLine: known drone, inside the window
JsonSuppressed(h, line, now) ==
    LET mac == MacOf(line)
        idx == dedupFind(h.table, mac)
    IN  [h EXCEPT !.table[idx].lastSeen = now,
                  !.table[idx].dupsBlocked = (@ + 1) % UINT8_MOD,
                  !.stats.msgReceived = @ + 1,
                  !.stats.msgSuppressed = @ + 1,
                  !.out = <<>>,
                  !.ev = Ev("suppress", mac, idx, h.fwdAt[mac], IsFull(h.table))]

processLine(h, line, now) ==
    LET path == PathOf(h.table, line, now)
    IN  CASE path = "nonjson" -> NonJsonLine(h, line, now)
          [] path = "nomac" -> JsonNoMac(h, line, now)
          [] path = "new" -> JsonNewDrone(h, line, now)
          [] path = "window" -> JsonNewWindow(h, line, now)
          [] path = "suppress" -> JsonSuppressed(h, line, now)

RECURSIVE DrainFill(_, _, _, _)
\* the UART read loop of loop() taking n consecutive lines, those of the
\* background drones first+1 .. first+n, within one millisecond
DrainFill(h, first, n, now) ==
    IF n = 0 THEN h
    ELSE LET h1 == processLine(h, FillLine(first + 1), now)
         IN  IF h1.ev.op = "none" THEN h1
             ELSE DrainFill(h1, first + 1, n - 1, now)

(***************************************************************************)
(* Head end: startup and loop()                                            *)
(*                                                                         *)
(* The heartbeat, the statistics report and the sweep's log line are       *)
(* diagnostics on Serial; they change no state and are left out of usbOut. *)
(***************************************************************************)
ZeroStats == [msgReceived |-> 0, msgForwarded |-> 0, msgSuppressed |-> 0, msgNonJson |-> 0]

\* setup(): dedupInit() zeroes the table, the timers take millis(), counters are 0
HomeInit ==
    /\ clock = 0
    /\ hpc = "top"
    /\ loopNow = 0
    /\ lastCleanup = 0
    /\ dedupTable = [i \in Slots |-> ZeroEntry]
    /\ stats = ZeroStats
    /\ usbOut = <<>>
    /\ nTicks = 0
    /\ nFill = 0
    /\ ev = NoEv
    /\ fwdAt = [m \in MacKeys |-> -1]

HomeState == [table |-> dedupTable, stats |-> stats, out |-> usbOut, ev |-> ev,
              fwdAt |-> fwdAt]

Store(h) ==
    /\ dedupTable' = h.table
    /\ stats' = h.stats
    /\ usbOut' = h.out
    /\ ev' = h.ev
    /\ fwdAt' = h.fwdAt

LinesRead == stats.msgForwarded + stats.msgSuppressed + stats.msgNonJson

\* loop(), first statement: now = millis()
LoopTop ==
    /\ hpc = "top"
    /\ hpc' = "body"
    /\ loopNow' = clock
    /\ usbOut' = <<>>
    /\ ev' = [NoEv EXCEPT !.op = "top"]
    /\ UNCHANGED <<clock, lastCleanup, dedupTable, stats, nTicks, nFill, fwdAt>>
    /\ UNCHANGED nodeVars

\* loop(), UART read: one complete line arrives and goes through processLine
ReadLine ==
    /\ hpc = "body"
    /\ LinesRead < MaxLines
    /\ \E line \in FocusLines : Store(processLine(HomeState, line, clock))
    /\ UNCHANGED <<clock, hpc, loopNow, lastCleanup, nTicks, nFill>>
    /\ UNCHANGED nodeVars

\* how many background drones report back to back: the first time all but
\* one slot's worth, afterwards one at a time
BurstSize == IF nFill = 0 THEN DEDUP_MAX_DRONES - 1 ELSE 1

\* loop(), UART read: the next background drones report, each once, in order
ReadFill ==
    /\ hpc = "body"
    /\ nFill + BurstSize <= Len(FillTag)
    /\ nFill' = nFill + BurstSize
    /\ Store(DrainFill(HomeState, nFill, BurstSize, clock))
    /\ UNCHANGED <<clock, hpc, loopNow, lastCleanup, nTicks>>
    /\ UNCHANGED nodeVars

\* loop(), UART read while the table is under pressure: a record of X or a
\* record without a MAC
ReadLineFull ==
    /\ hpc = "body"
    /\ LinesRead - nFill < MaxLines
    /\ \E line \in FullLines : Store(processLine(HomeState, line, clock))
    /\ UNCHANGED <<clock, hpc, loopNow, lastCleanup, nTicks, nFill>>
    /\ UNCHANGED nodeVars

\* loop(), UART read: the next record of a burst of records of X, relayed
\* by many nodes at once
ReadBurst(maxLines) ==
    /\ hpc = "body"
    /\ LinesRead < maxLines
    /\ Store(processLine(HomeState, Record(MAC_X, NODE_1), clock))
    /\ UNCHANGED <<clock, hpc, loopNow, lastCleanup, nTicks, nFill>>
    /\ UNCHANGED nodeVars

\* loop(), cleanup due: dedupCleanStale runs with the `now` taken at the top
LoopCleanup ==
    /\ hpc = "body"
    /\ U32Sub(loopNow, lastCleanup) >= CLEANUP_INTERVAL_MS
    /\ dedupTable' = dedupCleanStale(dedupTable, loopNow)
    /\ lastCleanup' = loopNow
    /\ hpc' = "top"
    /\ usbOut' = <<>>
    /\ ev' = [NoEv EXCEPT !.op = "sweep"]
    /\ UNCHANGED <<clock, loopNow, stats, nTicks, nFill, fwdAt>>
    /\ UNCHANGED nodeVars

\* loop(), cleanup not due
LoopNoCleanup ==
    /\ hpc = "body"
    /\ ~(U32Sub(loopNow, lastCleanup) >= CLEANUP_INTERVAL_MS)
    /\ hpc' = "top"
    /\ usbOut' = <<>>
    /\ ev' = [NoEv EXCEPT !.op = "bottom"]
    /\ UNCHANGED <<clock, loopNow, lastCleanup, dedupTable, stats, nTicks, nFill, fwdAt>>
    /\ UNCHANGED nodeVars

\* time passes (inside delay(1), inside a serial write, between two statements)
Tick ==
    /\ nTicks < MaxTicks
    /\ \E d \in Deltas : clock' = clock + d
    /\ nTicks' = nTicks + 1
    /\ UNCHANGED <<hpc, loopNow, lastCleanup, dedupTable, stats, usbOut, nFill, ev, fwdAt>>
    /\ UNCHANGED nodeVars

\* time passes, in the steps of the capacity runs
TickFull ==
    /\ nTicks < MaxTicksFull
    /\ \E d \in FullDeltas : clock' = clock + d
    /\ nTicks' = nTicks + 1
    /\ UNCHANGED <<hpc, loopNow, lastCleanup, dedupTable, stats, usbOut, nFill, ev, fwdAt>>
    /\ UNCHANGED nodeVars

\* the head end with two drones and every kind of line
HomeNext == LoopTop \/ ReadLine \/ LoopCleanup \/ LoopNoCleanup \/ Tick


\* lines read in one burst run: the record that opens the window, as many
\* as dupsBlocked can count, and two more
MaxBurstLines == 258

\* clock advances of the burst runs: within the window and to its end
BurstDeltas == {1, DEDUP_WINDOW_MS}

\* number of clock advances in one burst run
MaxTicksBurst == 1

\* time passes, in the steps of the burst runs
TickBurst ==
    /\ nTicks < MaxTicksBurst
    /\ \E d \in BurstDeltas : clock' = clock + d
    /\ nTicks' = nTicks + 1
    /\ UNCHANGED <<hpc, loopNow, lastCleanup, dedupTable, stats, usbOut, nFill, ev, fwdAt>>
    /\ UNCHANGED nodeVars

\* the head end with one drone relayed in bursts; no sweep falls due in the
\* second these runs last
BurstNext ==
    \/ LoopTop
    \/ ReadBurst(MaxBurstLines)
    \/ LoopNoCleanup
    \/ TickBurst

\* clock advances of the stale runs: a millisecond, a sweep interval, the
\* stale threshold
StaleDeltas == {1, CLEANUP_INTERVAL_MS, DEDUP_STALE_MS}

\* number of clock advances in one stale run
MaxTicksStale == 5

\* records of X read in one stale run
MaxStaleLines == 2

\* time passes, in the steps of the stale runs
TickStale ==
    /\ nTicks < MaxTicksStale
    /\ \E d \in StaleDeltas : clock' = clock + d
    /\ nTicks' = nTicks + 1
    /\ UNCHANGED <<hpc, loopNow, lastCleanup, dedupTable, stats, usbOut, nFill, ev, fwdAt>>
    /\ UNCHANGED nodeVars

\* the head end with one drone that stops reporting
StaleNext ==
    \/ LoopTop
    \/ ReadBurst(MaxStaleLines)
    \/ LoopCleanup
    \/ LoopNoCleanup
    \/ TickStale

\* the head end with more drones than the table has slots
FullNext == LoopTop \/ ReadFill \/ ReadLineFull \/ LoopCleanup \/ LoopNoCleanup \/ TickFull


(***************************************************************************)
(* Detector node: tracking table                                           *)
(***************************************************************************)
UavSlots == 0..(MAX_UAVS - 1)

ZERO_MAC == <<0, 0, 0, 0, 0, 0>>

\* a uav_data after memset(.., 0, ..)
ZeroUav == [mac |-> ZERO_MAC, rssi |-> 0, last_seen |-> 0, op_id |-> <<>>,
            uav_id |-> <<>>, lat_d |-> 0, long_d |-> 0, base_lat_d |-> 0,
            base_long_d |-> 0, altitude_msl |-> 0, height_agl |-> 0, speed |-> 0,
            heading |-> 0, flag |-> 0]

RECURSIVE OldestUav(_, _, _, _)
\* the eviction scan of next_uav: strict <, so the lowest index wins a tie
OldestUav(table, i, oldest_time, oldest_idx) ==
    IF i >= MAX_UAVS THEN oldest_idx
    ELSE IF table[i].last_seen < oldest_time
         THEN OldestUav(table, i + 1, table[i].last_seen, i)
         ELSE OldestUav(table, i + 1, oldest_time, oldest_idx)

\* variant: no search for the slot already holding mac
next_uavNoMatch(table, mac) ==
    LET empty == {i \in UavSlots : table[i].mac[1] = 0}
    IN  IF empty # {} THEN CHOOSE i \in empty : \A j \in empty : i <= j
        ELSE OldestUav(table, 0, U32_WRAPPED, 0)

\* next_uav: the slot whose 6 bytes equal mac, else the first slot whose
\* first byte is 0, else the slot with the smallest last_seen
next_uav(table, mac) ==
    LET same == {i \in UavSlots : table[i].mac = mac}
        empty == {i \in UavSlots : table[i].mac[1] = 0}
    IN  IF same # {} THEN CHOOSE i \in same : \A j \in same : i <= j
        ELSE IF empty # {} THEN CHOOSE i \in empty : \A j \in empty : i <= j
        ELSE OldestUav(table, 0, U32_WRAPPED, 0)

(***************************************************************************)
(* Detector node: what a frame carries                                     *)
(*                                                                         *)
(* A payload number v stands for one decoded message content; the fields   *)
(* it decodes to are distinct, so that a field landing in the wrong place  *)
(* or keeping an old value shows.                                          *)
(***************************************************************************)
UasId(v) == <<"U", ToString(v)>>

OperatorId(v) == <<"O", ToString(v)>>

Location(v) == [Latitude |-> 10 + v, Longitude |-> 20 + v, AltitudeGeo |-> 30 + v,
                Height |-> 40 + v, SpeedHorizontal |-> 50 + v, Direction |-> 60 + v]

System(v) == [OperatorLatitude |-> 70 + v, OperatorLongitude |-> 80 + v]

RSSI == -50

\* a BLE advertisement: address, length of the 0xFFFA service data (0: none),
\* message type nibble and content
BleAdv(mac, len, kind, v) == [mac |-> mac, len |-> len, kind |-> kind, v |-> v]

\* one decoded message pack: which of the four messages it holds, and content
Pack(basic, loc, sys, op, v) ==
    [BasicIDValid |-> basic, LocationValid |-> loc, SystemValid |-> sys,
     OperatorIDValid |-> op, v |-> v]

\* a captured 802.11 frame: packet type, carrier ("nan", "beacon", "other"),
\* source address, and the packs of its action frame body or of its
\* vendor-specific elements (none: the NAN decoder rejected the frame)
WifiFrame(type, carrier, mac, packs) ==
    [type |-> type, carrier |-> carrier, mac |-> mac, packs |-> packs]

(***************************************************************************)
(* Detector node: print queue                                              *)
(*                                                                         *)
(* n is the part of the state a callback can change:                       *)
(*   [uavs, queue, enq, drop, nev]                                         *)
(***************************************************************************)
QUEUE_LENGTH == MAX_UAVS * 2

\* variant: a full queue gives up its oldest snapshot for the new one
xQueueOverwrite(queue, item) ==
    IF Len(queue) < QUEUE_LENGTH THEN Append(queue, item) ELSE Append(Tail(queue), item)

\* variant: the newest snapshot is taken first
xQueueReceiveBack(queue) ==
    [item |-> queue[Len(queue)], rest |-> SubSeq(queue, 1, Len(queue) - 1)]

\* xQueueSend(.., 0) / xQueueSendFromISR: append when there is room, else
\* return at once with the item not stored
xQueueSend(queue, item) ==
    IF Len(queue) < QUEUE_LENGTH THEN Append(queue, item) ELSE queue

\* variant: taking the front snapshot empties the queue
xQueueReceiveFlush(queue) == [item |-> Head(queue), rest |-> <<>>]

\* xQueueReceive: the item at the front, and the queue without it
xQueueReceive(queue) == [item |-> Head(queue), rest |-> Tail(queue)]

\* what a beacon scan did: the frame's length, the payload indices it read,
\* the elements it went through, the elements it stored, whether it stopped
\* at an element reaching past the frame, and table and queue at that stop
NoScan == [length |-> 0, reads |-> {}, elems |-> 0, hits |-> 0, broke |-> FALSE,
           uavsAtBreak |-> <<>>, queueAtBreak |-> <<>>]

NoNev == [op |-> "none", mac |-> ZERO_MAC, slot |-> -1, known |-> FALSE,
          wasFull |-> FALSE, queued |-> FALSE, free |-> 0, scan |-> NoScan]

\* a callback that returned before touching the table
Ignored == [NoNev EXCEPT !.op = "ignored"]

\* tmp = *slot; enqueue; seq numbers the accepted snapshots
QueueSnapshot(n, idx, op, mac, known) ==
    LET room == Len(n.queue) < QUEUE_LENGTH
        item == [snap |-> n.uavs[idx], seq |-> n.enq + 1]
    IN  [n EXCEPT !.queue = xQueueSend(n.queue, item),
                  !.enq = IF room THEN @ + 1 ELSE @,
                  !.drop = IF room THEN @ ELSE @ + 1,
                  !.nev = [NoNev EXCEPT !.op = op, !.mac = mac, !.slot = idx,
                                        !.known = known, !.wasFull = ~room,
                                        !.queued = room]]

(***************************************************************************)
(* Detector node: BLE scan callback                                        *)
(***************************************************************************)
\* the switch on the message type; g is the content of the local struct when
\* the message is too short to be decoded into it
BleFields(u, adv, g) ==
    LET v == IF adv.len - 1 >= ODID_MESSAGE_SIZE THEN adv.v ELSE g
    IN  CASE adv.kind = "basic" ->
                [u EXCEPT !.uav_id = strncpy(UasId(v), ODID_ID_SIZE)]
          [] adv.kind = "loc" ->
                [u EXCEPT !.lat_d = Location(v).Latitude,
                          !.long_d = Location(v).Longitude,
                          !.altitude_msl = Location(v).AltitudeGeo,
                          !.height_agl = Location(v).Height,
                          !.speed = Location(v).SpeedHorizontal,
                          !.heading = Location(v).Direction]
          [] adv.kind = "sys" ->
                [u EXCEPT !.base_lat_d = System(v).OperatorLatitude,
                          !.base_long_d = System(v).OperatorLongitude]
          [] adv.kind = "opid" ->
                [u EXCEPT !.op_id = strncpy(OperatorId(v), ODID_ID_SIZE)]
          [] OTHER -> u

\* DroneIDCallback::onResult
onResult(n, adv, g, now) ==
    IF adv.len < 3 THEN [n EXCEPT !.nev = Ignored]
    ELSE LET idx == next_uav(n.uavs, adv.mac)
             known == n.uavs[idx].mac = adv.mac
             u1 == [n.uavs[idx] EXCEPT !.last_seen = now, !.rssi = RSSI,
                                       !.flag = 1, !.mac = adv.mac]
             n1 == [n EXCEPT !.uavs[idx] = BleFields(u1, adv, g)]
         IN  QueueSnapshot(n1, idx, "ble", adv.mac, known)

\* next_uav of the remoteid-mesh-dualcore-c5 build: the slot whose 6 bytes
\* equal mac, else the first slot whose first byte is 0, else slot 0
next_uavMeshC5(table, mac) ==
    LET same == {i \in UavSlots : table[i].mac = mac}
        empty == {i \in UavSlots : table[i].mac[1] = 0}
    IN  IF same # {} THEN CHOOSE i \in same : \A j \in same : i <= j
        ELSE IF empty # {} THEN CHOOSE i \in empty : \A j \in empty : i <= j
        ELSE 0

\* MyAdvertisedDeviceCallbacks::onResult of that build: flag is set last
onResultMeshC5(n, adv, g, now) ==
    IF adv.len < 3 THEN [n EXCEPT !.nev = Ignored]
    ELSE LET idx == next_uavMeshC5(n.uavs, adv.mac)
             known == n.uavs[idx].mac = adv.mac
             u1 == [n.uavs[idx] EXCEPT !.last_seen = now, !.rssi = RSSI,
                                       !.mac = adv.mac]
             n1 == [n EXCEPT !.uavs[idx] = [BleFields(u1, adv, g) EXCEPT !.flag = 1]]
         IN  QueueSnapshot(n1, idx, "ble", adv.mac, known)

(***************************************************************************)
(* Detector node: WiFi capture callback                                    *)
(***************************************************************************)
\* UAS_data after memset(&UAS_data, 0, sizeof(UAS_data))
ZeroUas == [BasicIDValid |-> FALSE, LocationValid |-> FALSE, SystemValid |-> FALSE,
            OperatorIDValid |-> FALSE, BasicID |-> 0, Location |-> 0, System |-> 0,
            OperatorID |-> 0]

\* odid_message_process_pack (opendroneid library): each message of the pack
\* is decoded into its part of the buffer and its flag set; the parts of the
\* messages the pack does not have are not touched
odid_message_process_pack(d, pack) ==
    [BasicIDValid |-> d.BasicIDValid \/ pack.BasicIDValid,
     LocationValid |-> d.LocationValid \/ pack.LocationValid,
     SystemValid |-> d.SystemValid \/ pack.SystemValid,
     OperatorIDValid |-> d.OperatorIDValid \/ pack.OperatorIDValid,
     BasicID |-> IF pack.BasicIDValid THEN pack.v ELSE d.BasicID,
     Location |-> IF pack.LocationValid THEN pack.v ELSE d.Location,
     System |-> IF pack.SystemValid THEN pack.v ELSE d.System,
     OperatorID |-> IF pack.OperatorIDValid THEN pack.v ELSE d.OperatorID]

\* the local UAV built from the decode buffer d
WifiUav(mac, d, now) ==
    LET u0 == [ZeroUav EXCEPT !.mac = mac, !.rssi = RSSI, !.last_seen = now]
        u1 == IF d.BasicIDValid
              THEN [u0 EXCEPT !.uav_id = strncpy(UasId(d.BasicID), ODID_ID_SIZE)] ELSE u0
        u2 == IF d.LocationValid
              THEN [u1 EXCEPT !.lat_d = Location(d.Location).Latitude,
                              !.long_d = Location(d.Location).Longitude,
                              !.altitude_msl = Location(d.Location).AltitudeGeo,
                              !.height_agl = Location(d.Location).Height,
                              !.speed = Location(d.Location).SpeedHorizontal,
                              !.heading = Location(d.Location).Direction]
              ELSE u1
        u3 == IF d.SystemValid
              THEN [u2 EXCEPT !.base_lat_d = System(d.System).OperatorLatitude,
                              !.base_long_d = System(d.System).OperatorLongitude]
              ELSE u2
    IN  IF d.OperatorIDValid
        THEN [u3 EXCEPT !.op_id = strncpy(OperatorId(d.OperatorID), ODID_ID_SIZE)] ELSE u3

\* the UAV built from the buffer; stored = next_uav(UAV.mac); *stored = UAV;
\* stored->flag = 1; enqueue
StoreUav(n, mac, now) ==
    LET idx == next_uav(n.uavs, mac)
        known == n.uavs[idx].mac = mac
        n1 == [n EXCEPT !.uavs[idx] = [WifiUav(mac, n.uas, now) EXCEPT !.flag = 1]]
    IN  QueueSnapshot(n1, idx, "wifi", mac, known)

\* a matching element of a beacon: memset(&UAS_data, 0, ..);
\* odid_message_process_pack(&UAS_data, ..); build, store, enqueue
WifiStore(n, mac, pack, now) ==
    StoreUav([n EXCEPT !.uas = odid_message_process_pack(ZeroUas, pack)], mac, now)

\* a NAN action frame the decoder accepts:
\* odid_wifi_receive_message_pack_nan_action_frame(&UAS_data, ..) decodes
\* its pack into the buffer as it stands; build, store, enqueue
WifiStoreNan(n, mac, pack, now) ==
    StoreUav([n EXCEPT !.uas = odid_message_process_pack(n.uas, pack)], mac, now)

RECURSIVE WifiElements(_, _, _, _)
\* the element loop of a beacon: one store per matching element, in order
WifiElements(n, mac, packs, now) ==
    IF packs = <<>> THEN n
    ELSE LET n1 == WifiStore(n, mac, Head(packs), now)
         IN  IF n1.nev.op = "none" THEN n1
             ELSE WifiElements(n1, mac, Tail(packs), now)

\* wifiCallback
wifiCallback(n, frame, now) ==
    IF frame.type # "mgmt" THEN [n EXCEPT !.nev = Ignored]
    ELSE IF frame.carrier = "nan"
         THEN IF frame.packs # <<>>
              THEN WifiStoreNan(n, frame.mac, frame.packs[1], now)
              ELSE [n EXCEPT !.nev = Ignored]
    ELSE IF frame.carrier = "beacon" /\ frame.packs # <<>>
         THEN WifiElements(n, frame.mac, frame.packs, now)
    ELSE [n EXCEPT !.nev = Ignored]

(***************************************************************************)
(* Detector node: the beacon branch of wifiCallback on the frame's bytes   *)
(*                                                                         *)
(* payload is the frame, Len(payload) its sig_len; C index i is payload[i  *)
(* + 1].  A read at or past sig_len yields what follows the frame in       *)
(* memory, `mem`, which the frame does not determine.                      *)
(***************************************************************************)
IE_START == 36

IE_VENDOR == 221

IE_DATA_OFFSET == 7

BEACON_SUBTYPE == 128

PACK_TYPE == 15

PACK_HEADER_LEN == 3

OUI_ASD == <<144, 58, 230>>

OUI_WFA == <<250, 11, 188>>

Byte(payload, mem, i) ==
    IF i < Len(payload) THEN payload[i + 1] ELSE mem[i - Len(payload) + 1]

\* the type of the k-th message of a pack (k from 0), from its first byte
PackMsgType(pack, k) == pack[PACK_HEADER_LEN + k * ODID_MESSAGE_SIZE + 1] \div 16

\* odid_message_process_pack on the bytes from j to the end of the frame: a
\* pack is a header (type 0xF, message size 25, message count) and that many
\* 25-byte messages; whatever does not fit leaves UAS_data as memset left it
DecodePack(bytes) ==
    LET ok == /\ Len(bytes) >= PACK_HEADER_LEN
              /\ bytes[1] \div 16 = PACK_TYPE
              /\ bytes[2] = ODID_MESSAGE_SIZE
              /\ bytes[3] >= 1
              /\ Len(bytes) >= PACK_HEADER_LEN + bytes[3] * ODID_MESSAGE_SIZE
        types == IF ok THEN {PackMsgType(bytes, k) : k \in 0..(bytes[3] - 1)} ELSE {}
        v == IF ok THEN bytes[PACK_HEADER_LEN + 2] ELSE 0
    IN  Pack(0 \in types, 1 \in types, 4 \in types, 5 \in types, v)

RECURSIVE ScanElements(_, _, _, _, _)
\* while (offset < length) { ... offset += len + 2; }
ScanElements(acc, payload, mem, offset, now) ==
    LET length == Len(payload)
    IN  IF ~(offset < length) THEN acc
        ELSE LET typ == Byte(payload, mem, offset)
                 len == Byte(payload, mem, offset + 1)
                 header == {offset, offset + 1}
             IN  IF offset + len + 2 > length
                 THEN [acc EXCEPT !.scan.reads = @ \cup header,
                                  !.scan.broke = TRUE,
                                  !.scan.uavsAtBreak = acc.n.uavs,
                                  !.scan.queueAtBreak = acc.n.queue]
                 ELSE LET b2 == Byte(payload, mem, offset + 2)
                          b3 == Byte(payload, mem, offset + 3)
                          b4 == Byte(payload, mem, offset + 4)
                          vendor == typ = IE_VENDOR
                          \* && and || stop at the first operand that decides
                          oui == IF ~vendor THEN {}
                                 ELSE {offset + 2}
                                      \cup (IF b2 \in {OUI_ASD[1], OUI_WFA[1]}
                                            THEN {offset + 3} ELSE {})
                                      \cup (IF \/ b2 = OUI_ASD[1] /\ b3 = OUI_ASD[2]
                                               \/ b2 = OUI_WFA[1] /\ b3 = OUI_WFA[2]
                                            THEN {offset + 4} ELSE {})
                          match == vendor /\ <<b2, b3, b4>> \in {OUI_ASD, OUI_WFA}
                          j == offset + IE_DATA_OFFSET
                          hit == match /\ j < length
                          n1 == IF hit
                                THEN WifiStore(acc.n, SubSeq(payload, 11, 16),
                                               DecodePack(SubSeq(payload, j + 1, length)),
                                               now)
                                ELSE acc.n
                      IN  ScanElements([acc EXCEPT !.n = n1,
                                                   !.scan.reads = @ \cup header \cup oui,
                                                   !.scan.elems = @ + 1,
                                                   !.scan.hits = @ + (IF hit THEN 1 ELSE 0)],
                                       payload, mem, offset + len + 2, now)

\* wifiCallback on a management frame that is not a NAN action frame
BeaconScan(n, payload, mem, now) ==
    LET start == [n |-> n, scan |-> [NoScan EXCEPT !.length = Len(payload)]]
        r == IF payload[1] = BEACON_SUBTYPE
             THEN ScanElements(start, payload, mem, IE_START, now)
             ELSE start
    IN  [r.n EXCEPT !.nev = [(IF r.scan.hits > 0 THEN r.n.nev ELSE Ignored)
                                EXCEPT !.op = "beacon", !.scan = r.scan]]

(***************************************************************************)
(* Detector node: JSON line and printer task                               *)
(***************************************************************************)
HexDigits == <<"0", "1", "2", "3", "4", "5", "6", "7", "8", "9",
               "a", "b", "c", "d", "e", "f">>

\* %02x
Hex2(b) == <<HexDigits[(b \div 16) + 1], HexDigits[(b % 16) + 1]>>

\* the mac_str of buildJson: six %02x joined by ':'
MacStr(mac) ==
    Hex2(mac[1]) \o <<":">> \o Hex2(mac[2]) \o <<":">> \o Hex2(mac[3]) \o <<":">>
        \o Hex2(mac[4]) \o <<":">> \o Hex2(mac[5]) \o <<":">> \o Hex2(mac[6])

RECURSIVE Digits(_)
Digits(k) == IF k < 10 THEN 1 ELSE 1 + Digits(k \div 10)

\* characters %d prints
DecLen(k) == IF k < 0 THEN 1 + Digits(-k) ELSE Digits(k)

\* characters %.6f prints for a whole number
FixLen(k) == DecLen(k) + 7

NODE_ID == <<"A", "B", "1", "2">>

\* buildJson: the fields of the line in print order, and the length snprintf returns
buildJson(u) ==
    [mac |-> MacStr(u.mac), rssi |-> u.rssi, drone_lat |-> u.lat_d,
     drone_long |-> u.long_d, drone_altitude |-> u.altitude_msl,
     pilot_lat |-> u.base_lat_d, pilot_long |-> u.base_long_d,
     basic_id |-> u.uav_id, node_id |-> NODE_ID,
     len |-> JSON_FIXED_LEN + Len(MacStr(u.mac)) + DecLen(u.rssi) + FixLen(u.lat_d)
               + FixLen(u.long_d) + DecLen(u.altitude_msl) + FixLen(u.base_lat_d)
               + FixLen(u.base_long_d) + Len(u.uav_id) + Len(NODE_ID)]

\* free space Serial1.availableForWrite() may report
TxFree == {0, 256}

\* ... and the two values either side of the comparison with a line of `len`
TxFreeNear(len) == {len - 1, len}

\* Serial1.println(json) writes the line and "\r\n"
PRINTLN_EOL_LEN == 2

println_bytes(json) == json.len + PRINTLN_EOL_LEN

\* a send_to_mesh that wants room for one character more than the line
send_to_meshStrict(u, free) == IF free > buildJson(u).len THEN buildJson(u) ELSE <<>>

\* send_to_mesh: the line goes out when the free space covers its length
send_to_mesh(u, free) == IF free >= buildJson(u).len THEN buildJson(u) ELSE <<>>

(***************************************************************************)
(* Detector node: DroneIDCallback::onResult in the steps between which the *)
(* WiFi task, of higher priority, can run wifiCallback: the slot is         *)
(* selected; the slot is written; the slot is copied and enqueued.  No lock *)
(* is taken in either callback.                                            *)
(***************************************************************************)
BleIdle == [pc |-> "idle", adv |-> BleAdv(ZERO_MAC, 0, "none", 0), g |-> 0, idx |-> -1,
            known |-> FALSE]

\* UAV = next_uav(mac)
bleSelect(n, adv, g) ==
    [pc |-> "selected", adv |-> adv, g |-> g, idx |-> next_uav(n.uavs, adv.mac),
     known |-> n.uavs[next_uav(n.uavs, adv.mac)].mac = adv.mac]

\* UAV->last_seen = ..; UAV->rssi = ..; UAV->flag = 1; memcpy(UAV->mac, ..);
\* switch (msg[0] & 0xF0) { .. }
bleMerge(n, call, now) ==
    LET u1 == [n.uavs[call.idx] EXCEPT !.last_seen = now, !.rssi = RSSI,
                                       !.flag = 1, !.mac = call.adv.mac]
    IN  [n EXCEPT !.uavs[call.idx] = BleFields(u1, call.adv, call.g)]

\* tmp = *UAV; xQueueSend(printQueue, &tmp, 0)
bleEnqueue(n, call) == QueueSnapshot(n, call.idx, "ble", call.adv.mac, call.known)

(***************************************************************************)
(* Detector node: startup and steps                                        *)
(***************************************************************************)
NodeInit ==
    /\ nodeClock = BOOT_DELAY_MS
    /\ uavs = [i \in UavSlots |-> ZeroUav]
    /\ printQueue = <<>>
    /\ nodeUsb = <<>>
    /\ nodeMesh = <<>>
    /\ enqCount = 0
    /\ dropCount = 0
    /\ emitCount = 0
    /\ lastItem = [snap |-> ZeroUav, seq |-> 0]
    /\ nev = NoNev
    /\ nFrames = 0
    /\ nNodeTicks = 0
    /\ lastSendTime = 0
    /\ meshLog = <<>>
    /\ bleCall = BleIdle
    /\ UAS_data = ZeroUas
    /\ on5GHz = FALSE
    /\ chanIdx24 = 0
    /\ chanIdx5 = 0
    /\ lastHop = 0
    /\ radioChannel = SETUP_CHANNEL
    /\ last_status = 0
    /\ nodeHb = -1
    /\ hopBand = "none"
    /\ nHops = 0
    /\ hopLog = <<>>

NodeState == [uavs |-> uavs, queue |-> printQueue, enq |-> enqCount,
              drop |-> dropCount, nev |-> nev, uas |-> UAS_data]

NodeStore(n) ==
    /\ uavs' = n.uavs
    /\ printQueue' = n.queue
    /\ enqCount' = n.enq
    /\ dropCount' = n.drop
    /\ nev' = n.nev
    /\ UAS_data' = n.uas

\* the WiFi driver hands one of `frames` to wifiCallback
WifiRx(frames, maxFrames) ==
    /\ nFrames < maxFrames
    /\ nFrames' = nFrames + 1
    /\ \E f \in frames : NodeStore(wifiCallback(NodeState, f, nodeClock))
    /\ UNCHANGED <<nodeClock, nodeUsb, nodeMesh, emitCount, lastItem, nNodeTicks>>
    /\ UNCHANGED <<hopVars, linkVars>>
    /\ UNCHANGED raceVars
    /\ UNCHANGED homeVars

\* the WiFi driver hands a beacon, as bytes, to wifiCallback
BeaconRx(payloads, mems, maxFrames) ==
    /\ nFrames < maxFrames
    /\ nFrames' = nFrames + 1
    /\ \E payload \in payloads, mem \in mems :
          NodeStore(BeaconScan(NodeState, payload, mem, nodeClock))
    /\ UNCHANGED <<nodeClock, nodeUsb, nodeMesh, emitCount, lastItem, nNodeTicks>>
    /\ UNCHANGED <<hopVars, linkVars>>
    /\ UNCHANGED raceVars
    /\ UNCHANGED homeVars

\* the BLE scan hands one of `advs` to onResult, which selects its slot
BleSelect(advs, garbage, maxFrames) ==
    /\ bleCall.pc = "idle"
    /\ nFrames < maxFrames
    /\ nFrames' = nFrames + 1
    /\ \E a \in advs, g \in garbage :
          IF a.len < 3
          THEN /\ nev' = Ignored
               /\ UNCHANGED bleCall
          ELSE /\ bleCall' = bleSelect(NodeState, a, g)
               /\ UNCHANGED nev
    /\ UNCHANGED <<nodeClock, uavs, printQueue, nodeUsb, nodeMesh, enqCount,
                   dropCount, emitCount, lastItem, nNodeTicks>>
    /\ UNCHANGED <<hopVars, linkVars>>
    /\ UNCHANGED decodeVars
    /\ UNCHANGED homeVars

\* onResult goes on: the slot it selected is written
BleMerge ==
    /\ bleCall.pc = "selected"
    /\ bleCall' = [bleCall EXCEPT !.pc = "merged"]
    /\ uavs' = bleMerge(NodeState, bleCall, nodeClock).uavs
    /\ UNCHANGED <<nodeClock, printQueue, nodeUsb, nodeMesh, enqCount, dropCount,
                   emitCount, lastItem, nev, nFrames, nNodeTicks>>
    /\ UNCHANGED <<hopVars, linkVars>>
    /\ UNCHANGED decodeVars
    /\ UNCHANGED homeVars

\* onResult ends: the slot is copied into the queue
BleEnqueue ==
    /\ bleCall.pc = "merged"
    /\ bleCall' = BleIdle
    /\ NodeStore(bleEnqueue(NodeState, bleCall))
    /\ UNCHANGED <<nodeClock, nodeUsb, nodeMesh, emitCount, lastItem, nFrames,
                   nNodeTicks>>
    /\ UNCHANGED <<hopVars, linkVars>>
    /\ UNCHANGED homeVars

\* the BLE scan of the remoteid-mesh-dualcore-c5 build hands one of `advs` to
\* its onResult
BleRxMeshC5(advs, garbage, maxFrames) ==
    /\ nFrames < maxFrames
    /\ nFrames' = nFrames + 1
    /\ \E a \in advs, g \in garbage :
          NodeStore(onResultMeshC5(NodeState, a, g, nodeClock))
    /\ UNCHANGED <<nodeClock, nodeUsb, nodeMesh, emitCount, lastItem, nNodeTicks>>
    /\ UNCHANGED <<hopVars, linkVars>>
    /\ UNCHANGED raceVars
    /\ UNCHANGED homeVars

\* the BLE scan hands one of `advs` to onResult
BleRx(advs, garbage, maxFrames) ==
    /\ nFrames < maxFrames
    /\ nFrames' = nFrames + 1
    /\ \E a \in advs, g \in garbage : NodeStore(onResult(NodeState, a, g, nodeClock))
    /\ UNCHANGED <<nodeClock, nodeUsb, nodeMesh, emitCount, lastItem, nNodeTicks>>
    /\ UNCHANGED <<hopVars, linkVars>>
    /\ UNCHANGED raceVars
    /\ UNCHANGED homeVars

\* printerTask: one turn of its loop with a snapshot waiting
printerTask ==
    /\ printQueue # <<>>
    /\ LET r == xQueueReceive(printQueue)
       IN  /\ printQueue' = r.rest
           /\ lastItem' = r.item
           /\ nodeUsb' = buildJson(r.item.snap)
           /\ \E free \in TxFree \cup TxFreeNear(buildJson(r.item.snap).len) :
                 /\ nodeMesh' = send_to_mesh(r.item.snap, free)
                 /\ nev' = [NoNev EXCEPT !.op = "print", !.free = free]
    /\ emitCount' = emitCount + 1
    /\ UNCHANGED <<nodeClock, uavs, enqCount, dropCount, nFrames, nNodeTicks>>
    /\ UNCHANGED <<hopVars, linkVars>>
    /\ UNCHANGED raceVars
    /\ UNCHANGED decodeVars
    /\ UNCHANGED homeVars

\* time passes on the node
NodeTick(deltas, maxTicks) ==
    /\ nNodeTicks < maxTicks
    /\ nNodeTicks' = nNodeTicks + 1
    /\ \E d \in deltas : nodeClock' = nodeClock + d
    /\ UNCHANGED <<uavs, printQueue, nodeUsb, nodeMesh, enqCount, dropCount,
                   emitCount, lastItem, nev, nFrames>>
    /\ UNCHANGED <<hopVars, linkVars>>
    /\ UNCHANGED raceVars
    /\ UNCHANGED decodeVars
    /\ UNCHANGED homeVars

(***************************************************************************)
(* Detector node, remoteid-mesh-dualcore-c5 build: the printer task writes *)
(* the JSON line to Serial and map links to Serial1                        *)
(***************************************************************************)
\* send_json_fast: the fields of the line in print order (no node_id)
send_json_fast(u) ==
    [mac |-> MacStr(u.mac), rssi |-> u.rssi, drone_lat |-> u.lat_d,
     drone_long |-> u.long_d, drone_altitude |-> u.altitude_msl,
     pilot_lat |-> u.base_lat_d, pilot_long |-> u.base_long_d,
     basic_id |-> u.uav_id]

\* "Drone: <mac> RSSI:<rssi>", with " https://maps.google.com/?q=<lat>,<long>"
\* when both coordinates are non-zero; len is msg_len
DroneMsg(u) ==
    LET link == u.lat_d # 0 /\ u.long_d # 0
    IN  [kind |-> "drone", mac |-> MacStr(u.mac), rssi |-> u.rssi,
         lat |-> IF link THEN u.lat_d ELSE 0, long |-> IF link THEN u.long_d ELSE 0,
         len |-> DRONE_FIXED_LEN + Len(MacStr(u.mac)) + DecLen(u.rssi)
                   + (IF link THEN LINK_FIXED_LEN + FixLen(u.lat_d) + FixLen(u.long_d)
                      ELSE 0)]

\* "Pilot: https://maps.google.com/?q=<lat>,<long>"; len is pilot_len
PilotMsg(u) ==
    [kind |-> "pilot", lat |-> u.base_lat_d, long |-> u.base_long_d,
     len |-> PILOT_FIXED_LEN + FixLen(u.base_lat_d) + FixLen(u.base_long_d)]

\* variant: no throttle
ThrottleOpenAlways(now, last) == TRUE

\* the throttle of print_compact_message lets a snapshot through
ThrottleOpen(now, last) == ~(U32Sub(now, last) < SEND_INTERVAL_MS)

\* one write to Serial1, as the log keeps it
Written(msg, seq, t) == [kind |-> msg.kind, seq |-> seq, t |-> t]

\* printerTask of this build: one turn of its loop with a snapshot waiting;
\* a snapshot that passes the throttle keeps the task in delay(1000)
printerTaskLink ==
    /\ printQueue # <<>>
    /\ LET r == xQueueReceive(printQueue)
           u == r.item.snap
           now == nodeClock
           open == ThrottleOpen(now, lastSendTime)
           pilot == u.base_lat_d # 0 /\ u.base_long_d # 0
       IN  /\ printQueue' = r.rest
           /\ lastItem' = r.item
           /\ nodeUsb' = send_json_fast(u)
           /\ IF ~open
              THEN /\ nodeMesh' = <<>>
                   /\ nev' = [NoNev EXCEPT !.op = "throttled"]
                   /\ UNCHANGED <<nodeClock, lastSendTime, meshLog>>
              ELSE /\ lastSendTime' = now
                   /\ nodeClock' = now + PILOT_DELAY_MS
                   /\ \E free1, free2 \in TxFree :
                         LET w1 == IF free1 >= DroneMsg(u).len
                                   THEN <<Written(DroneMsg(u), r.item.seq, now)>>
                                   ELSE <<>>
                             w2 == IF pilot /\ free2 >= PilotMsg(u).len
                                   THEN <<Written(PilotMsg(u), r.item.seq,
                                                  now + PILOT_DELAY_MS)>>
                                   ELSE <<>>
                         IN  /\ meshLog' = meshLog \o w1 \o w2
                             /\ nodeMesh' = IF w2 # <<>> THEN PilotMsg(u)
                                            ELSE IF w1 # <<>> THEN DroneMsg(u)
                                            ELSE <<>>
                             /\ nev' = [NoNev EXCEPT !.op = "print", !.free = free1]
    /\ emitCount' = emitCount + 1
    /\ UNCHANGED <<uavs, enqCount, dropCount, nFrames, nNodeTicks>>
    /\ UNCHANGED hopVars
    /\ UNCHANGED raceVars
    /\ UNCHANGED decodeVars
    /\ UNCHANGED homeVars

(***************************************************************************)
(* Detector node: loop()                                                   *)
(*                                                                         *)
(* One iteration: the hop when HOP_INTERVAL_MS have passed, the heartbeat  *)
(* when it is due, then delay(10).  The LED is left out.                   *)
(***************************************************************************)
channels_24g == <<1, 6, 11, 2, 3, 4, 5, 7, 8, 9, 10, 12, 13>>

channels_5g == <<36, 40, 44, 48, 52, 56, 60, 64, 100, 104, 108, 112, 116, 120, 124,
                 128, 132, 136, 140, 144, 149, 153, 157, 161, 165>>

NUM_24G_CH == Len(channels_24g)

NUM_5G_CH == Len(channels_5g)

HopState == [on5GHz |-> on5GHz, chanIdx24 |-> chanIdx24, chanIdx5 |-> chanIdx5,
             channel |-> radioChannel]

\* variant: a hop advances the cursors of both bands
hopChannelBothCursors(r) ==
    IF r.on5GHz
    THEN [r EXCEPT !.channel = channels_5g[r.chanIdx5 + 1],
                   !.chanIdx5 = (@ + 1) % NUM_5G_CH,
                   !.chanIdx24 = (@ + 1) % NUM_24G_CH,
                   !.on5GHz = FALSE]
    ELSE [r EXCEPT !.channel = channels_24g[r.chanIdx24 + 1],
                   !.chanIdx24 = (@ + 1) % NUM_24G_CH,
                   !.chanIdx5 = (@ + 1) % NUM_5G_CH,
                   !.on5GHz = TRUE]

\* variant: the 5 GHz cursor wraps at the length of the 2.4 GHz list
hopChannelSharedWrap(r) ==
    IF r.on5GHz
    THEN [r EXCEPT !.channel = channels_5g[r.chanIdx5 + 1],
                   !.chanIdx5 = (@ + 1) % NUM_24G_CH,
                   !.on5GHz = FALSE]
    ELSE [r EXCEPT !.channel = channels_24g[r.chanIdx24 + 1],
                   !.chanIdx24 = (@ + 1) % NUM_24G_CH,
                   !.on5GHz = TRUE]

\* variant: the band flag is switched first and names the band tuned to
hopChannelToggleFirst(r) ==
    IF ~r.on5GHz
    THEN [r EXCEPT !.channel = channels_5g[r.chanIdx5 + 1],
                   !.chanIdx5 = (@ + 1) % NUM_5G_CH,
                   !.on5GHz = TRUE]
    ELSE [r EXCEPT !.channel = channels_24g[r.chanIdx24 + 1],
                   !.chanIdx24 = (@ + 1) % NUM_24G_CH,
                   !.on5GHz = FALSE]

\* variant: a band's list is gone through to its end before the other band's
hopChannelBandByBand(r) ==
    IF r.on5GHz
    THEN [r EXCEPT !.channel = channels_5g[r.chanIdx5 + 1],
                   !.chanIdx5 = (@ + 1) % NUM_5G_CH,
                   !.on5GHz = (r.chanIdx5 + 1) % NUM_5G_CH # 0]
    ELSE [r EXCEPT !.channel = channels_24g[r.chanIdx24 + 1],
                   !.chanIdx24 = (@ + 1) % NUM_24G_CH,
                   !.on5GHz = (r.chanIdx24 + 1) % NUM_24G_CH = 0]

\* variant: the band flag is left as it was
hopChannelNoToggle(r) ==
    IF r.on5GHz
    THEN [r EXCEPT !.channel = channels_5g[r.chanIdx5 + 1],
                   !.chanIdx5 = (@ + 1) % NUM_5G_CH]
    ELSE [r EXCEPT !.channel = channels_24g[r.chanIdx24 + 1],
                   !.chanIdx24 = (@ + 1) % NUM_24G_CH]

\* hopChannel: tune to the current band's next channel, advance that band's
\* cursor, switch band
hopChannel(r) ==
    IF r.on5GHz
    THEN [r EXCEPT !.channel = channels_5g[r.chanIdx5 + 1],
                   !.chanIdx5 = (@ + 1) % NUM_5G_CH,
                   !.on5GHz = FALSE]
    ELSE [r EXCEPT !.channel = channels_24g[r.chanIdx24 + 1],
                   !.chanIdx24 = (@ + 1) % NUM_24G_CH,
                   !.on5GHz = TRUE]

\* the log keeps as many hops as take both lists round once
HOP_LOG_LEN == 2 * NUM_5G_CH

LastHops(log) ==
    IF Len(log) > HOP_LOG_LEN THEN SubSeq(log, Len(log) - HOP_LOG_LEN + 1, Len(log))
    ELSE log

\* the band a channel number belongs to
BandOf(ch) == IF \E i \in DOMAIN channels_5g : channels_5g[i] = ch THEN "5" ELSE "2.4"

\* the heartbeat's count of tracked drones
Tracked(table, now) ==
    Cardinality({i \in UavSlots : /\ table[i].mac[1] # 0
                                  /\ U32Sub(now, table[i].last_seen) < TRACKED_MS})

\* loop(): one iteration, ending in delay(10) that lasts one of `deltas`
NodeLoop(deltas, maxHops) ==
    /\ nHops < maxHops
    /\ LET now == nodeClock
           due == U32Sub(now, lastHop) >= HOP_INTERVAL_MS
           r == IF due THEN hopChannel(HopState) ELSE HopState
       IN  /\ on5GHz' = r.on5GHz
           /\ chanIdx24' = r.chanIdx24
           /\ chanIdx5' = r.chanIdx5
           /\ radioChannel' = r.channel
           /\ lastHop' = IF due THEN now ELSE lastHop
           /\ hopBand' = IF due THEN BandOf(r.channel) ELSE hopBand
           /\ nHops' = IF due THEN nHops + 1 ELSE nHops
           /\ hopLog' = IF due THEN LastHops(Append(hopLog, r.channel)) ELSE hopLog
           /\ IF U32Sub(now, last_status) > HEARTBEAT_MS
              THEN nodeHb' = Tracked(uavs, now) /\ last_status' = now
              ELSE UNCHANGED <<nodeHb, last_status>>
    /\ \E d \in deltas : nodeClock' = nodeClock + d
    /\ UNCHANGED <<uavs, printQueue, nodeUsb, nodeMesh, enqCount, dropCount,
                   emitCount, lastItem, nev, nFrames, nNodeTicks>>
    /\ UNCHANGED linkVars
    /\ UNCHANGED raceVars
    /\ UNCHANGED decodeVars
    /\ UNCHANGED homeVars

(***************************************************************************)
(* Detector node: the frames of the model                                  *)
(***************************************************************************)
M_A == <<96, 96, 31, 1, 2, 3>>

M_B == <<144, 58, 230, 4, 5, 6>>

\* the k-th background drone's address; the eighth starts with a 0x00 byte
NodeFillMac(k) == <<IF k = MAX_UAVS THEN 0 ELSE 16 * k, 38, 124, 7, 8, k>>

\* service data lengths: too short for the callback, too short to decode, complete
SVC_NONE == 2

SVC_SHORT == 10

SVC_FULL == ODID_MESSAGE_SIZE + 1

\* merge runs: the BLE advertisements
MergeAdvs ==
    {BleAdv(M_A, SVC_FULL, k, v) : k \in {"basic", "loc"}, v \in {1, 2}}
        \cup {BleAdv(M_A, SVC_FULL, "sys", 1), BleAdv(M_A, SVC_FULL, "opid", 1),
              BleAdv(M_A, SVC_FULL, "other", 1), BleAdv(M_A, SVC_SHORT, "basic", 1),
              BleAdv(M_A, SVC_NONE, "loc", 1), BleAdv(M_B, SVC_FULL, "basic", 2)}

\* merge runs: the 802.11 frames
MergeFrames ==
    {WifiFrame("mgmt", "nan", M_A, <<Pack(FALSE, TRUE, FALSE, FALSE, 3)>>),
     WifiFrame("mgmt", "nan", M_A, <<>>),
     WifiFrame("mgmt", "beacon", M_A, <<Pack(TRUE, TRUE, TRUE, TRUE, 4)>>),
     WifiFrame("mgmt", "beacon", M_A,
               <<Pack(TRUE, FALSE, FALSE, FALSE, 5), Pack(FALSE, FALSE, TRUE, FALSE, 5)>>),
     WifiFrame("mgmt", "other", M_A, <<>>),
     WifiFrame("data", "other", M_A, <<>>)}

\* what an undecoded local struct may hold
Garbage == {0, 9}

\* merge runs: callbacks and clock advances in one run
MaxFrames == 3

MaxNodeTicks == 2

MergeNext ==
    \/ WifiRx(MergeFrames, MaxFrames)
    \/ BleRx(MergeAdvs, Garbage, MaxFrames)
    \/ printerTask
    \/ NodeTick({1}, MaxNodeTicks)

\* capacity runs: the background drones report once each, in order, over
\* BLE; from the table's last slot on also over WiFi
ExtraDrones == 3

MaxFramesFull == MAX_UAVS + ExtraDrones

FullAdvs == {BleAdv(NodeFillMac(nFrames + 1), SVC_FULL, "loc", 1)}

FullFrames ==
    IF nFrames + 1 >= MAX_UAVS
    THEN {WifiFrame("mgmt", "nan", NodeFillMac(nFrames + 1),
                    <<Pack(TRUE, TRUE, FALSE, FALSE, 2)>>)}
    ELSE {}

CapacityNext ==
    \/ WifiRx(FullFrames, MaxFramesFull)
    \/ BleRx(FullAdvs, {0}, MaxFramesFull)
    \/ printerTask
    \/ NodeTick({1}, MaxNodeTicks)

\* queue runs: one drone reports faster than the printer task drains, in a
\* burst within one millisecond; the first reports come over BLE, the later
\* ones over either radio
QueueSlack == 4

MaxFramesQueue == QUEUE_LENGTH + QueueSlack

QueueAdvs ==
    IF nFrames + QueueSlack < QUEUE_LENGTH
    THEN {BleAdv(M_A, SVC_FULL, "loc", 1)}
    ELSE {BleAdv(M_A, SVC_FULL, "basic", 2)}

QueueFrames ==
    IF nFrames + QueueSlack < QUEUE_LENGTH THEN {}
    ELSE {WifiFrame("mgmt", "nan", M_A, <<Pack(FALSE, TRUE, FALSE, FALSE, 3)>>)}

QueueNext ==
    \/ WifiRx(QueueFrames, MaxFramesQueue)
    \/ BleRx(QueueAdvs, {0}, MaxFramesQueue)
    \/ printerTask

\* capacity runs of the remoteid-mesh-dualcore-c5 build: the background
\* drones report once each, in order, over BLE
MeshC5Next ==
    \/ BleRxMeshC5(FullAdvs, {0}, MaxFramesFull)
    \/ printerTaskLink
    \/ NodeTick({1}, MaxNodeTicks)

\* race runs: drone A reports over BLE and WiFi, drone B over WiFi; A's
\* content is 1, B's is 2
MaxFramesRace == 4

RaceAdvs == {BleAdv(M_A, SVC_FULL, "basic", 1)}

RaceFrames ==
    {WifiFrame("mgmt", "nan", M_A, <<Pack(FALSE, TRUE, FALSE, FALSE, 1)>>),
     WifiFrame("mgmt", "nan", M_B, <<Pack(FALSE, TRUE, FALSE, FALSE, 2)>>)}

RaceNext ==
    \/ BleSelect(RaceAdvs, {0}, MaxFramesRace)
    \/ BleMerge
    \/ BleEnqueue
    \/ WifiRx(RaceFrames, MaxFramesRace)
    \/ printerTask

\* sentinel runs: three drones, one with an address whose first byte is 0x00,
\* report over either radio
M_Z == <<0, 38, 124, 7, 8, 9>>

MaxFramesSentinel == 3

SentinelMacs == {M_A, M_B, M_Z}

SentinelAdvs == {BleAdv(m, SVC_FULL, "loc", 1) : m \in SentinelMacs}

SentinelFrames ==
    {WifiFrame("mgmt", "nan", m, <<Pack(TRUE, FALSE, FALSE, FALSE, 2)>>) : m \in SentinelMacs}

SentinelNext ==
    \/ WifiRx(SentinelFrames, MaxFramesSentinel)
    \/ BleRx(SentinelAdvs, {0}, MaxFramesSentinel)
    \/ printerTask

\* liveness runs: a few fragments of one drone over both radios
MaxFramesLive == 4

LiveAdvs == {BleAdv(M_A, SVC_FULL, "loc", 1), BleAdv(M_A, SVC_FULL, "basic", 2)}

LiveFrames == {WifiFrame("mgmt", "nan", M_A, <<Pack(FALSE, TRUE, FALSE, FALSE, 3)>>)}

LiveNext ==
    \/ WifiRx(LiveFrames, MaxFramesLive)
    \/ BleRx(LiveAdvs, {0}, MaxFramesLive)
    \/ printerTask

\* hopping runs: an iteration with its delay(10) takes half a hop interval
\* or, with the task held up, a whole one; before loop() first runs a drone may be heard, and the
\* task may be held up for a heartbeat period
MaxHops == 60

LoopDeltas == {HOP_INTERVAL_MS \div 2, HOP_INTERVAL_MS}

HopAdvs == IF nHops = 0 THEN {BleAdv(M_A, SVC_FULL, "loc", 1)} ELSE {}

HopWaits == IF nHops = 0 THEN {HEARTBEAT_MS} ELSE {}

HopNext ==
    \/ NodeLoop(LoopDeltas, MaxHops)
    \/ NodeTick(HopWaits, 1)
    \/ BleRx(HopAdvs, {0}, 1)

\* sweep runs: loop() alone, for twice the hops that take the 5 GHz list round
MaxSweepHops == 100

SweepNext == NodeLoop(LoopDeltas, MaxSweepHops)

\* map-link runs: one drone reports its position, with or without the
\* pilot's, while seconds pass
MaxFramesLink == 4

MaxLinkTicks == 3

LinkFrames ==
    {WifiFrame("mgmt", "nan", M_A, <<Pack(FALSE, TRUE, FALSE, FALSE, 1)>>),
     WifiFrame("mgmt", "nan", M_A, <<Pack(FALSE, TRUE, TRUE, FALSE, 2)>>)}

LinkDeltas == {PILOT_DELAY_MS, SEND_INTERVAL_MS - PILOT_DELAY_MS}

LinkNext ==
    \/ WifiRx(LinkFrames, MaxFramesLink)
    \/ printerTaskLink
    \/ NodeTick(LinkDeltas, MaxLinkTicks)

\* scan runs: beacons of drone A whose element area is every string of up
\* to MaxTail bytes over TailBytes, or one of a few longer ones
MaxTail == 3

MaxFramesScan == 2

TailBytes == {0, 1, IE_VENDOR, OUI_ASD[1]}

Tails(k) == [1..k -> TailBytes]

RECURSIVE Zeros(_)
Zeros(k) == IF k = 0 THEN <<>> ELSE <<0>> \o Zeros(k - 1)

\* the 36 bytes before the elements: frame control, duration, destination
\* ff:ff:ff:ff:ff:ff, source, BSSID, sequence, timestamp, interval, capability
BeaconHeader(mac) ==
    <<BEACON_SUBTYPE, 0, 0, 0, 255, 255, 255, 255, 255, 255>> \o mac \o mac
        \o Zeros(IE_START - 22)

\* an ODID element: 0xdd, length, OUI, vendor type, counter, then the pack
OdidElement(oui, pack) ==
    <<IE_VENDOR, Len(pack) + 5>> \o oui \o <<13, 0>> \o pack

\* a pack of one message of type `typ` and content v
OnePack(typ, v) ==
    <<16 * PACK_TYPE + 2, ODID_MESSAGE_SIZE, 1, 16 * typ + 2, v>>
        \o Zeros(ODID_MESSAGE_SIZE - 2)

LongTails ==
    {OdidElement(OUI_WFA, OnePack(1, 1)),
     <<0, 2, 1, 1>> \o OdidElement(OUI_ASD, OnePack(0, 2)),
     OdidElement(OUI_WFA, OnePack(1, 1)) \o <<1, 9, 0>>,
     OdidElement(OUI_WFA, OnePack(1, 1)) \o <<3>>,
     <<IE_VENDOR, 3>> \o OUI_WFA,
     <<IE_VENDOR, 1>> \o <<OUI_ASD[1]>>}

ScanPayloads ==
    {BeaconHeader(M_A) \o t : t \in UNION {Tails(k) : k \in 0..MaxTail} \cup LongTails}

\* what may follow the frame in memory
ScanMems == {Zeros(3), OUI_ASD, <<OUI_ASD[2], OUI_ASD[3], 0>>}

ScanNext ==
    \/ BeaconRx(ScanPayloads, ScanMems, MaxFramesScan)
    \/ printerTask

(***************************************************************************)
(* Specifications                                                          *)
(***************************************************************************)
\* both devices after setup()
Init == HomeInit /\ NodeInit

\* the head end with two drones and every kind of line
SpecHome == Init /\ [][HomeNext]_vars

\* the head end with one drone relayed in bursts
SpecBurst == Init /\ [][BurstNext]_vars

\* the head end with one drone that stops reporting; the Arduino core calls
\* loop() again whenever it returns, and loop() runs to its end
SpecStale ==
    /\ Init
    /\ [][StaleNext]_vars
    /\ WF_vars(LoopTop)
    /\ WF_vars(LoopCleanup)
    /\ WF_vars(LoopNoCleanup)

\* the head end with more drones than the table has slots
SpecHomeFull == Init /\ [][FullNext]_vars

\* the detector node merging the fragments of two drones
SpecNode == Init /\ [][MergeNext]_vars

\* the detector node with more drones than the table has slots
SpecNodeFull == Init /\ [][CapacityNext]_vars

\* the detector node with the printer task falling behind
SpecQueue == Init /\ [][QueueNext]_vars

\* the map-link build printing what the WiFi callback queued
SpecLink == Init /\ [][LinkNext]_vars

\* the remoteid-mesh-dualcore-c5 build with more drones than slots
SpecMeshC5 == Init /\ [][MeshC5Next]_vars

\* the detector node with wifiCallback running inside the BLE callback
SpecRace == Init /\ [][RaceNext]_vars

\* the detector node hearing a drone whose address starts with 0x00
SpecSentinel == Init /\ [][SentinelNext]_vars

\* the detector node receiving beacons byte by byte
SpecScan == Init /\ [][ScanNext]_vars

\* the detector node's loop() hopping channels
SpecHop == Init /\ [][HopNext]_vars

\* the detector node's loop() alone; the Arduino core calls loop() again
\* whenever it returns
SpecSweep == Init /\ [][SweepNext]_vars /\ WF_vars(SweepNext)

\* the detector node with a few snapshots and the printer task, blocked in
\* xQueueReceive(portMAX_DELAY), run by the scheduler whenever one is waiting
SpecLive == Init /\ [][LiveNext]_vars /\ WF_vars(printerTask)

(***************************************************************************)
(* Claims about the head end                                               *)
(***************************************************************************)
Forwards(h) == h.stats.msgForwarded = stats.msgForwarded + 1 /\ h.out # <<>>

\* what reading `line` now would do
AfterLine(line) == processLine(HomeState, line, clock)

XEntries == {i \in Slots : dedupTable[i].active /\ dedupTable[i].mac = MAC_X}

XOpenWindow == \E i \in XEntries : clock - dedupTable[i].windowStart < DEDUP_WINDOW_MS

\* C1: any two forwarded records that carry the same MAC arrived at least
\* DEDUP_WINDOW_MS apart.
C1_OneForwardPerWindow ==
    (ev.op \in {"new", "window"} /\ ev.prevFwd # -1)
        => fwdAt[ev.mac] - ev.prevFwd >= DEDUP_WINDOW_MS

\* C2: a record of a MAC that has an active entry is forwarded exactly when
\* now - windowStart >= 500 and is suppressed otherwise; from an empty table,
\* of the records of X at 0, 100 and 600 the first and the third are
\* forwarded and the second leaves dupsBlocked at 1.
C2_WindowDecides ==
    \A line \in {l \in ProbeLines : LineInfo[l].json /\ Len(MacOf(l)) > 0} :
        LET mac == MacOf(line)
            idx == dedupFind(dedupTable, mac)
            h == AfterLine(line)
        IN  /\ (LineInfo[line].json /\ Len(mac) > 0 /\ idx # -1) =>
                  IF clock - dedupTable[idx].windowStart >= 500
                  THEN /\ Forwards(h)
                       /\ h.out = line
                       /\ h.stats.msgSuppressed = stats.msgSuppressed
                  ELSE /\ h.out = <<>>
                       /\ h.stats.msgForwarded = stats.msgForwarded
                       /\ h.stats.msgSuppressed = stats.msgSuppressed + 1
            /\ (line = Record(MAC_X, NODE_1) /\ stats = ZeroStats /\ clock = 0) =>
                  Forwards(h)
            /\ (line = Record(MAC_X, NODE_1) /\ clock = 100 /\ stats.msgReceived = 1
                    /\ fwdAt[MAC_X] = 0) =>
                  /\ ~Forwards(h)
                  /\ h.table[idx].dupsBlocked = 1
            /\ (line = Record(MAC_X, NODE_1) /\ clock = 600 /\ stats.msgReceived = 2
                    /\ stats.msgSuppressed = 1 /\ fwdAt[MAC_X] = 0 /\ idx # -1
                    /\ dedupTable[idx].lastSeen = 100) =>
                  Forwards(h)

\* the third record of the example has been forwarded
C2_Witness ==
    /\ ev.op = "window"
    /\ ev.mac = MAC_X
    /\ ev.prevFwd = 0
    /\ fwdAt[MAC_X] = 600
    /\ stats = [msgReceived |-> 3, msgForwarded |-> 2, msgSuppressed |-> 1, msgNonJson |-> 0]

\* C6: a sweep deactivates exactly the active entries whose last record is
\* more than DEDUP_STALE_MS before the sweep's `now`, and changes nothing else.
C6_SweepExact ==
    [][(hpc = "body" /\ ev'.op = "sweep") =>
         \A i \in Slots :
            dedupTable'[i] =
               IF dedupTable[i].active /\ loopNow - dedupTable[i].lastSeen > DEDUP_STALE_MS
               THEN [dedupTable[i] EXCEPT !.active = FALSE]
               ELSE dedupTable[i]]_vars

\* C7: a brace-delimited record from which no MAC is extracted is forwarded in
\* every state of the table, and the table stays as it is.
C7_NoMacPassThrough ==
    \A line \in {LINE_NO_MAC, LINE_EMPTY_MAC} :
        LET h == AfterLine(line)
        IN  /\ LineInfo[line].json
            /\ Len(MacOf(line)) = 0
            /\ Forwards(h)
            /\ h.out = line
            /\ h.table = dedupTable

\* a record without MAC was forwarded while the table was full and X's window open
C7_Witness ==
    /\ ev.op = "nomac"
    /\ usbOut = LINE_NO_MAC
    /\ ev.full
    /\ XOpenWindow

\* for the classification: every text over these characters up to this length
SmallChars == {" ", "{", "}", "x"}

SmallLen == 3

SmallLines == UNION {[1..n -> SmallChars] : n \in 1..SmallLen}

RECURSIVE Trim(_)
Trim(l) ==
    IF l = <<>> THEN l
    ELSE IF IsBlank(Head(l)) THEN Trim(Tail(l))
    ELSE IF IsBlank(l[Len(l)]) THEN Trim(SubSeq(l, 1, Len(l) - 1))
    ELSE l

BraceDelimited(l) == Trim(l) # <<>> /\ Head(Trim(l)) = "{" /\ Trim(l)[Len(Trim(l))] = "}"

ClassifierAgrees == \A l \in SmallLines \cup AllLines : looksLikeJSON(l) <=> BraceDelimited(l)

\* C8: a line that is not brace-delimited after trimming goes out with the
\* mesh prefix, counts as msgNonJson only and leaves the dedup table alone.
C8_NonRecordUntouched ==
    /\ ClassifierAgrees
    /\ \A line \in {l \in ProbeLines : ~BraceDelimited(l)} :
          LET h == AfterLine(line)
          IN  /\ h.out = MESH_PREFIX \o line
              /\ h.table = dedupTable
              /\ h.stats = [stats EXCEPT !.msgNonJson = @ + 1]

\* text carrying X's MAC went through while X's window was open
C8_Witness ==
    /\ ev.op = "nonjson"
    /\ usbOut = MESH_PREFIX \o LINE_TEXT_MAC
    /\ XOpenWindow
    /\ stats.msgNonJson = 1

\* records whose MAC the table may not hold yet
NewMacLines == {Record(MAC_X, NODE_1), Record(MAC_Y, NODE_1), FillLine(Len(FillTag))}

\* the slot with the smallest lastSeen, the lowest index among equals
OldestSlot == CHOOSE i \in Slots : \A j \in Slots :
                  \/ dedupTable[i].lastSeen < dedupTable[j].lastSeen
                  \/ dedupTable[i].lastSeen = dedupTable[j].lastSeen /\ i <= j

InactiveSlots == {i \in Slots : ~dedupTable[i].active}

\* C4: the table never has more than 16 active entries; a record of an unseen
\* MAC arriving at a full table replaces exactly the entry with the smallest
\* lastSeen (lowest index among equals); with an inactive slot it takes the
\* first inactive slot and no active entry changes.
C4_CapacityAndEviction ==
    /\ ActiveCount(dedupTable) <= 16
    /\ \A line \in NewMacLines :
          dedupFind(dedupTable, MacOf(line)) = -1 =>
             LET h == AfterLine(line)
                 changed == {i \in Slots : h.table[i] # dedupTable[i]}
                 taken == IF InactiveSlots = {} THEN OldestSlot
                          ELSE CHOOSE i \in InactiveSlots : \A j \in InactiveSlots : i <= j
             IN  /\ changed = {taken}
                 /\ h.table[taken].active
                 /\ h.table[taken].mac = MacOf(line)
                 /\ ActiveCount(h.table) =
                       IF InactiveSlots = {} THEN 16 ELSE ActiveCount(dedupTable) + 1

\* an unseen MAC arrived at a full table whose oldest entry was not in slot 0
C4_Witness ==
    /\ ev.op = "new"
    /\ ev.full
    /\ ev.slot > 0
    /\ ActiveCount(dedupTable) = 16

(***************************************************************************)
(* Claims about the detector node                                          *)
(***************************************************************************)
\* what the callbacks would do now
AfterBle(adv) == onResult(NodeState, adv, 0, nodeClock)

AfterWifi(frame) == wifiCallback(NodeState, frame, nodeClock)

\* the content fields of a slot
IdFields(u) == <<u.uav_id>>

OpFields(u) == <<u.op_id>>

LocFields(u) == <<u.lat_d, u.long_d, u.altitude_msl, u.height_agl, u.speed, u.heading>>

SysFields(u) == <<u.base_lat_d, u.base_long_d>>

LocOf(v) == <<10 + v, 20 + v, 30 + v, 40 + v, 50 + v, 60 + v>>

SysOf(v) == <<70 + v, 80 + v>>

\* slot `new` is slot `old` with exactly the carried messages merged in
MergedFrom(old, new, basic, loc, sys, op, v) ==
    /\ IdFields(new) = IF basic THEN <<UasId(v)>> ELSE IdFields(old)
    /\ LocFields(new) = IF loc THEN LocOf(v) ELSE LocFields(old)
    /\ SysFields(new) = IF sys THEN SysOf(v) ELSE SysFields(old)
    /\ OpFields(new) = IF op THEN <<OperatorId(v)>> ELSE OpFields(old)

HeldSlots(mac) == {i \in UavSlots : uavs[i].mac = mac}

\* C3: a decoded fragment for a MAC the table holds sets the fields it
\* carries and leaves every other content field of that slot as it was.
C3_MergeKeepsOtherFields ==
    \A i \in HeldSlots(M_A) :
        /\ \A adv \in {a \in MergeAdvs : a.mac = M_A /\ a.len = SVC_FULL} :
              MergedFrom(uavs[i], AfterBle(adv).uavs[i], adv.kind = "basic",
                         adv.kind = "loc", adv.kind = "sys", adv.kind = "opid", adv.v)
        /\ \A f \in {w \in MergeFrames : w.type = "mgmt" /\ Len(w.packs) = 1} :
              LET p == f.packs[1]
              IN  MergedFrom(uavs[i], AfterWifi(f).uavs[i], p.BasicIDValid,
                             p.LocationValid, p.SystemValid, p.OperatorIDValid, p.v)

\* the slot with the smallest last_seen, the lowest index among equals
OldestUavSlot == CHOOSE i \in UavSlots : \A j \in UavSlots :
                     \/ uavs[i].last_seen < uavs[j].last_seen
                     \/ uavs[i].last_seen = uavs[j].last_seen /\ i <= j

HoldsEight == \A i \in UavSlots : uavs[i].mac # ZERO_MAC

\* C5: a fragment of a MAC the table does not hold, arriving while the table
\* holds eight MACs, replaces exactly the slot with the smallest last_seen
\* (lowest index among equals).
C5_FullTableEvictsOldest ==
    (HoldsEight /\ nFrames < MaxFramesFull) =>
        LET mac == NodeFillMac(nFrames + 1)
            ble == AfterBle(BleAdv(mac, SVC_FULL, "loc", 1))
            wifi == AfterWifi(WifiFrame("mgmt", "nan", mac,
                                        <<Pack(TRUE, TRUE, FALSE, FALSE, 2)>>))
        IN  \A n \in {ble, wifi} :
               /\ {i \in UavSlots : n.uavs[i] # uavs[i]} = {OldestUavSlot}
               /\ n.uavs[OldestUavSlot].mac = mac

\* every frame and advertisement of the queue runs
QueueInputsBle == {BleAdv(M_A, SVC_FULL, "loc", 1), BleAdv(M_A, SVC_FULL, "basic", 2)}

QueueInputsWifi == {WifiFrame("mgmt", "nan", M_A, <<Pack(FALSE, TRUE, FALSE, FALSE, 3)>>)}

\* C9: with QUEUE_LENGTH snapshots waiting, either callback runs to its end,
\* its snapshot is not stored, and the queue keeps its snapshots in order.
C9_FullQueueDrops ==
    Len(printQueue) = 16 =>
        \A n \in {AfterBle(a) : a \in QueueInputsBle}
                     \cup {AfterWifi(f) : f \in QueueInputsWifi} :
            /\ n.nev.op \in {"ble", "wifi"}
            /\ ~n.nev.queued
            /\ n.queue = printQueue
            /\ n.enq = enqCount
            /\ n.drop = dropCount + 1

\* the full queue, its newest snapshot one of BLE, refused a second snapshot, one of WiFi
C9_Witness ==
    /\ Len(printQueue) = 16
    /\ nev.op = "wifi"
    /\ nev.wasFull
    /\ dropCount = 2
    /\ printQueue[16].snap.uav_id = UasId(2)

\* C10: the k-th line the printer task writes is the line of the k-th
\* snapshot the queue accepted: the waiting snapshots carry the next
\* acceptance numbers in order, and the last line written is that of the
\* snapshot numbered emitCount.
C10_FifoEmission ==
    /\ enqCount = emitCount + Len(printQueue)
    /\ \A i \in 1..Len(printQueue) : printQueue[i].seq = emitCount + i
    /\ emitCount > 0 =>
          /\ lastItem.seq = emitCount
          /\ nodeUsb = buildJson(lastItem.snap)

\* the printer task wrote the line of the snapshot accepted after a refusal
C10_Witness ==
    /\ nev.op = "print"
    /\ dropCount = 1
    /\ emitCount = 17
    /\ lastItem.seq = 17
    /\ nodeUsb = buildJson(lastItem.snap)

(***************************************************************************)
(* Claims about the two output paths                                       *)
(***************************************************************************)
\* the line of the snapshot at the front of the queue
FrontLine == buildJson(Head(printQueue).snap)

\* C11: every turn of the printer task writes the line of the snapshot it took
\* to Serial whatever Serial1 reports, writes the same line to Serial1 exactly
\* when the free space Serial1 reported is at least the length of the line, and
\* leaves the queue without that snapshot, so a skipped mesh write is not tried
\* again.
C11_TwoPathEmission ==
    [][emitCount' = emitCount + 1 =>
          /\ printQueue # <<>>
          /\ nodeUsb' = FrontLine
          /\ (nev'.free >= FrontLine.len) => nodeMesh' = FrontLine
          /\ (nev'.free < FrontLine.len) => nodeMesh' = <<>>
          /\ printQueue' = Tail(printQueue)
          /\ \A i \in DOMAIN printQueue' : printQueue'[i].seq # Head(printQueue).seq
          /\ uavs' = uavs]_vars

\* a turn that was told one character too little: the line is on Serial only
C11_Witness ==
    /\ nev.op = "print"
    /\ emitCount >= 2
    /\ nev.free = buildJson(lastItem.snap).len - 1
    /\ nodeUsb = buildJson(lastItem.snap)
    /\ nodeMesh = <<>>
    /\ \A i \in DOMAIN printQueue : printQueue[i].seq > lastItem.seq

\* C12: with the printer task scheduled whenever the queue is not empty, every
\* snapshot the queue accepted is eventually the one written to Serial,
\* whatever free space Serial1 reports on each turn, also when it never has
\* room.
C12_LocalLiveness ==
    \A k \in 1..MaxFramesLive :
        (\E i \in DOMAIN printQueue : printQueue[i].seq = k)
            ~> (lastItem.seq = k /\ nodeUsb = buildJson(lastItem.snap))

\* every accepted snapshot has been printed, the last with no room on Serial1
C12_Witness ==
    /\ enqCount >= 3
    /\ emitCount = enqCount
    /\ printQueue = <<>>
    /\ lastItem.seq = enqCount
    /\ nev.op = "print"
    /\ nev.free = 0
    /\ nodeMesh = <<>>
    /\ nodeUsb = buildJson(lastItem.snap)

(***************************************************************************)
(* Claims about the keys of the two tables                                 *)
(***************************************************************************)
\* no address other than 00:00:00:00:00:00 is in two slots of `table`
UniqueMacs(table) ==
    \A i, j \in UavSlots :
        (i # j /\ table[i].mac # ZERO_MAC) => table[i].mac # table[j].mac

\* addresses the table holds, has held or has never seen: the first drone
\* (the first to be evicted), the eighth (its first byte is 0x00), the ninth
\* (the first to arrive at a full table) and the last
ProbeMacs == {NodeFillMac(k) : k \in {1, MAX_UAVS, MAX_UAVS + 1, MaxFramesFull}}

\* C13: with each callback run to completion, no address other than all-zero
\* is in two slots of uavs[]: in every state reached, and after one more BLE
\* or WiFi callback for any address, in the table or not.
C13_UniqueMacs ==
    /\ UniqueMacs(uavs)
    /\ \A m \in ProbeMacs :
          /\ UniqueMacs(AfterBle(BleAdv(m, SVC_FULL, "loc", 1)).uavs)
          /\ UniqueMacs(AfterWifi(WifiFrame("mgmt", "nan", m,
                                   <<Pack(TRUE, TRUE, FALSE, FALSE, 2)>>)).uavs)
          /\ UniqueMacs(AfterWifi(WifiFrame("mgmt", "beacon", m,
                                   <<Pack(TRUE, FALSE, FALSE, FALSE, 2),
                                     Pack(FALSE, TRUE, FALSE, FALSE, 3)>>)).uavs)

\* the table holds eight addresses, one of them after an eviction, and a
\* report for an address it holds arrives over BLE
C13_Witness ==
    /\ HoldsEight
    /\ nFrames > MAX_UAVS
    /\ \E i \in UavSlots : uavs[i].mac = NodeFillMac(MAX_UAVS + 1)
    /\ \E i \in UavSlots :
          AfterBle(BleAdv(uavs[i].mac, SVC_FULL, "loc", 1)).nev.known

\* no two active entries of `table` carry the same MAC string
UniqueKeys(table) ==
    \A i, j \in Slots :
        (i # j /\ table[i].active /\ table[j].active) => table[i].mac # table[j].mac

\* C14: the dedup table never holds two active entries with the same MAC
\* string: in every state reached through records, evictions and stale sweeps,
\* and after one more record of any drone, swept before or not.
C14_UniqueKeys ==
    /\ UniqueKeys(dedupTable)
    /\ \A line \in FullLines \cup NewMacLines : UniqueKeys(AfterLine(line).table)

\* X was swept, its old entry still carries its MAC, and X has a new entry
C14_Witness ==
    /\ ev.op = "new"
    /\ ev.mac = MAC_X
    /\ \E i \in Slots : ~dedupTable[i].active /\ dedupTable[i].mac = MAC_X
    /\ \E i \in Slots : dedupTable[i].active /\ dedupTable[i].mac = MAC_X

\* every active entry of `table` was last seen at or after its window's start
SeenAfterStart(table) ==
    \A i \in Slots : table[i].active => table[i].lastSeen >= table[i].windowStart

\* C15: with millis() never going back, every active entry has
\* lastSeen >= windowStart: in every state between two calls of
\* processJsonLine and dedupCleanStale, and after one more record of any kind.
C15_SeenAfterStart ==
    /\ SeenAfterStart(dedupTable)
    /\ \A line \in ProbeLines : SeenAfterStart(AfterLine(line).table)

\* X was suppressed inside its second window, some time after that window's
\* start
C15_Witness ==
    /\ ev.op = "suppress"
    /\ ev.mac = MAC_X
    /\ \E i \in Slots :
          /\ dedupTable[i].active
          /\ dedupTable[i].mac = MAC_X
          /\ dedupTable[i].dupsBlocked = 1
          /\ dedupTable[i].windowStart >= DEDUP_WINDOW_MS
          /\ dedupTable[i].lastSeen > dedupTable[i].windowStart

(***************************************************************************)
(* Claims about channel hopping                                            *)
(***************************************************************************)
\* C16: every hopChannel call selects a channel of the band the previous call
\* did not select; the bands of successive calls are 2.4, 5, 2.4, 5, ...
C16_BandsAlternate ==
    [][nHops' = nHops + 1 =>
          /\ hopBand' = BandOf(radioChannel')
          /\ hopBand' # hopBand
          /\ hopBand' = IF nHops % 2 = 0 THEN "2.4" ELSE "5"]_vars

\* both cursors have gone round once, the last hop was onto 5 GHz
C16_Witness ==
    /\ nHops = 2 * NUM_5G_CH + 2
    /\ hopBand = "5"
    /\ radioChannel = channels_5g[1]
    /\ on5GHz = FALSE

(***************************************************************************)
(* Claims about the map-link printer                                       *)
(***************************************************************************)
LogIdx == DOMAIN meshLog

\* C17, as stated: any two messages written to Serial1 are at least 5 s apart.
C17_OneMessagePerInterval ==
    \A i, j \in LogIdx :
        i < j => meshLog[j].t - meshLog[i].t >= SEND_INTERVAL_MS

\* C17, amended: the throttle admits one snapshot per 5 s; an admitted
\* snapshot writes at most one Drone message and, PILOT_DELAY_MS later, at
\* most one Pilot message, and messages of different snapshots belong to
\* throttle passes at least 5 s apart.
C17_OneSnapshotPerInterval ==
    \A i, j \in LogIdx :
        i < j =>
            IF meshLog[i].seq = meshLog[j].seq
            THEN /\ j = i + 1
                 /\ meshLog[i].kind = "drone"
                 /\ meshLog[j].kind = "pilot"
                 /\ meshLog[j].t = meshLog[i].t + PILOT_DELAY_MS
            ELSE /\ meshLog[i].seq < meshLog[j].seq
                 /\ meshLog[j].t - meshLog[i].t >= SEND_INTERVAL_MS - PILOT_DELAY_MS
                 /\ (meshLog[i].kind = meshLog[j].kind)
                       => meshLog[j].t - meshLog[i].t >= SEND_INTERVAL_MS

\* a snapshot wrote both messages, a later one was throttled, a third wrote
\* again
C17_Witness ==
    /\ Len(meshLog) >= 3
    /\ meshLog[1].kind = "drone"
    /\ meshLog[2].kind = "pilot"
    /\ meshLog[2].seq = meshLog[1].seq
    /\ meshLog[3].seq > meshLog[1].seq + 1
    /\ emitCount >= 3

(***************************************************************************)
(* Claims about the beacon scan                                            *)
(***************************************************************************)
\* C18: the element scan of a beacon ends, reads no payload byte at an index
\* at or past the frame's length, and when it stops at an element that
\* reaches past the frame it leaves table and queue as they were then.
C18_ScanInBounds ==
    nev.op = "beacon" =>
        /\ \A i \in nev.scan.reads : i < nev.scan.length
        /\ nev.scan.elems <= nev.scan.length
        /\ nev.scan.broke => /\ uavs = nev.scan.uavsAtBreak
                              /\ printQueue = nev.scan.queueAtBreak

(***************************************************************************)
(* Claims about undersized and evicting fragments                          *)
(***************************************************************************)
\* the fields of a slot that a message of `kind` carries
FieldsOf(kind, u) ==
    CASE kind = "basic" -> IdFields(u)
      [] kind = "loc" -> LocFields(u)
      [] kind = "sys" -> SysFields(u)
      [] kind = "opid" -> OpFields(u)

\* C19: a BLE message shorter than the encoded size of its type leaves the
\* fields of that type in the drone's slot as they were, whatever the
\* callback's local struct held.
C19_ShortFragmentSkipped ==
    \A i \in HeldSlots(M_A), kind \in {"basic", "loc", "sys", "opid"}, g \in Garbage :
        LET n == onResult(NodeState, BleAdv(M_A, SVC_SHORT, kind, 1), g, nodeClock)
        IN  FieldsOf(kind, n.uavs[i]) = FieldsOf(kind, uavs[i])

\* the slots a fragment of `mac` would take from another drone
TakenFrom(mac) ==
    {i \in UavSlots : /\ HeldSlots(mac) = {}
                      /\ next_uav(uavs, mac) = i
                      /\ uavs[i].mac # ZERO_MAC}

\* the record of a drone first heard now through one fragment
FreshUav(mac) == [ZeroUav EXCEPT !.mac = mac, !.rssi = RSSI,
                                 !.last_seen = nodeClock, !.flag = 1]

\* the snapshot the callback put into the queue
Enqueued(n) == n.queue[Len(n.queue)].snap

\* C20: a fragment of a MAC the table does not hold that takes the slot of
\* another drone leaves in the slot, and in the snapshot enqueued, only what
\* the fragment carries; every other field is zero or empty.  Over WiFi and
\* over BLE.
C20_EvictionResetsSlot ==
    \A i \in TakenFrom(M_B) :
        /\ LET n == AfterWifi(WifiFrame("mgmt", "nan", M_B,
                                        <<Pack(TRUE, FALSE, FALSE, FALSE, 1)>>))
           IN  /\ n.uavs[i] = [FreshUav(M_B) EXCEPT !.uav_id = UasId(1)]
               /\ n.nev.queued => Enqueued(n) = n.uavs[i]
        /\ LET n == AfterBle(BleAdv(M_B, SVC_FULL, "basic", 1))
           IN  /\ n.uavs[i] = [FreshUav(M_B) EXCEPT !.uav_id = UasId(1)]
               /\ n.nev.queued => Enqueued(n) = n.uavs[i]

(***************************************************************************)
(* Claims about slot allocation                                            *)
(***************************************************************************)
AllZeroSlots == {i \in UavSlots : uavs[i].mac = ZERO_MAC}

\* C21: while the table has a slot whose mac is all-zero, a fragment of a MAC
\* the table does not hold is given a slot whose mac is all-zero, never a slot
\* holding a drone (one whose MAC starts with 0x00 included).
C21_SentinelIsAllZero ==
    \A m \in SentinelMacs :
        (HeldSlots(m) = {} /\ AllZeroSlots # {})
            => next_uav(uavs, m) \in AllZeroSlots

\* what onResult of the remoteid-mesh-dualcore-c5 build would do now
AfterBleMeshC5(adv) == onResultMeshC5(NodeState, adv, 0, nodeClock)

\* C22: in the remoteid-mesh-dualcore-c5 build, with eight occupied slots, a
\* fragment of a MAC the table does not hold replaces slot 0 and no other
\* slot, whatever the last_seen values are.
C22_FullTableTakesSlotZero ==
    \A m \in ProbeMacs \cup {M_B} :
        (HoldsEight /\ HeldSlots(m) = {}) =>
            LET n == AfterBleMeshC5(BleAdv(m, SVC_FULL, "loc", 1))
            IN  /\ n.uavs[0].mac = m
                /\ \A i \in UavSlots \ {0} : n.uavs[i] = uavs[i]

(***************************************************************************)
(* Claims about the two callbacks running into each other                  *)
(***************************************************************************)
\* C23: whatever wifiCallback does between the steps of the BLE callback, no
\* MAC ends up in two slots of uavs[].
C23_UniqueMacsInterleaved == UniqueMacs(uavs)

\* the content the race runs give each drone's frames
ContentOf(mac) == IF mac = M_A THEN 1 ELSE 2

\* every field of record u is empty or was decoded from a frame of u's MAC
OwnFieldsOnly(u) ==
    LET v == ContentOf(u.mac)
    IN  /\ IdFields(u) \in {IdFields(ZeroUav), <<UasId(v)>>}
        /\ LocFields(u) \in {LocFields(ZeroUav), LocOf(v)}
        /\ SysFields(u) \in {SysFields(ZeroUav), SysOf(v)}
        /\ OpFields(u) \in {OpFields(ZeroUav), <<OperatorId(v)>>}

\* C24: whatever wifiCallback does between the steps of the BLE callback, a
\* snapshot in the queue has the MAC of the frame whose callback enqueued it,
\* and its fields are empty or decoded from frames of that MAC.
C24_SnapshotOfOneDrone ==
    /\ (nev.op \in {"ble", "wifi"} /\ nev.queued)
           => printQueue[Len(printQueue)].snap.mac = nev.mac
    /\ \A k \in 1..Len(printQueue) : OwnFieldsOnly(printQueue[k].snap)

(***************************************************************************)
(* Claims about the head end's three branches                              *)
(***************************************************************************)
\* the active entries of a MAC in a table
EntriesOf(table, mac) == {i \in Slots : table[i].active /\ table[i].mac = mac}

\* records of MACs that can be without an entry, from either node
UnseenLines == NewMacLines \cup {Record(MAC_X, NODE_2)}

\* C25: a record whose MAC has no active entry is forwarded at once, and
\* afterwards the MAC has exactly one active entry, with windowStart =
\* lastSeen = now, dupsBlocked = 0 and firstNodeId the record's node_id:
\* nothing of the slot's previous occupant is left.
C25_UnseenMacForwarded ==
    \A line \in UnseenLines :
        EntriesOf(dedupTable, MacOf(line)) = {} =>
            LET h == AfterLine(line)
            IN  /\ Forwards(h)
                /\ h.out = line
                /\ Cardinality(EntriesOf(h.table, MacOf(line))) = 1
                /\ \A i \in EntriesOf(h.table, MacOf(line)) :
                      h.table[i] = [mac |-> MacOf(line), windowStart |-> clock,
                                    lastSeen |-> clock, active |-> TRUE,
                                    firstNodeId |-> NodeOf(line), dupsBlocked |-> 0]

\* X, forwarded before and since evicted from the full table, took a slot again
C25_Witness ==
    /\ ev.op = "new"
    /\ ev.mac = MAC_X
    /\ ev.prevFwd # -1
    /\ ev.full
    /\ usbOut = Record(MAC_X, NODE_1)
    /\ dedupTable[ev.slot].firstNodeId = NODE_1
    /\ dedupTable[ev.slot].windowStart = clock

\* records that carry a MAC, from either node
MacLines == {l \in ProbeLines \cup {Record(MAC_X, NODE_2)} :
                LineInfo[l].json /\ Len(MacOf(l)) > 0}

\* C26: a record of a MAC with an active entry whose window has run out
\* (now - windowStart >= DEDUP_WINDOW_MS) is forwarded and leaves the entry
\* with windowStart = lastSeen = now, dupsBlocked = 0 and firstNodeId the
\* node_id of this record.
C26_ExpiredWindowReopens ==
    \A line \in MacLines :
        \A i \in EntriesOf(dedupTable, MacOf(line)) :
            U32Sub(clock, dedupTable[i].windowStart) >= DEDUP_WINDOW_MS =>
                LET h == AfterLine(line)
                IN  /\ Forwards(h)
                    /\ h.out = line
                    /\ h.table[i] = [dedupTable[i] EXCEPT !.windowStart = clock,
                                                           !.lastSeen = clock,
                                                           !.dupsBlocked = 0,
                                                           !.firstNodeId = NodeOf(line)]

\* a window that had one suppressed record ran out and was reopened by a
\* record that came through node N2
C26_Witness ==
    /\ ev.op = "window"
    /\ stats.msgSuppressed = 1
    /\ usbOut = LINE_PADDED
    /\ dedupTable[ev.slot].firstNodeId = NODE_2
    /\ dedupTable[ev.slot].dupsBlocked = 0
    /\ dedupTable[ev.slot].windowStart = clock

\* C27: a record of a MAC with an active entry whose window is open
\* (now - windowStart < DEDUP_WINDOW_MS) adds exactly one to the entry's
\* dupsBlocked, sets its lastSeen to now, writes nothing, and leaves the
\* entry's windowStart and firstNodeId and every other entry as they were.
C27_SuppressedCountsOne ==
    \A line \in MacLines :
        \A i \in EntriesOf(dedupTable, MacOf(line)) :
            U32Sub(clock, dedupTable[i].windowStart) < DEDUP_WINDOW_MS =>
                LET h == AfterLine(line)
                IN  /\ h.out = <<>>
                    /\ h.stats.msgForwarded = stats.msgForwarded
                    /\ h.table = [dedupTable EXCEPT
                                     ![i].dupsBlocked = dedupTable[i].dupsBlocked + 1,
                                     ![i].lastSeen = clock]

\* C28: a record of X that arrives DEDUP_WINDOW_MS or more after the last
\* forwarded record of X is forwarded, whatever was suppressed in between and
\* whether or not X still has its entry; a suppressed record does not move
\* the start of the window, which stays the time of the last forward.
C28_NoStarvation ==
    /\ \A line \in MacLines :
          (fwdAt[MacOf(line)] # -1
              /\ clock - fwdAt[MacOf(line)] >= DEDUP_WINDOW_MS)
                  => Forwards(AfterLine(line)) /\ AfterLine(line).out = line
    /\ \A i \in Slots :
          dedupTable[i].active => dedupTable[i].windowStart = fwdAt[dedupTable[i].mac]

\* X was forwarded exactly DEDUP_WINDOW_MS after its last forward, with a
\* suppressed record of X in between
C28_Witness ==
    /\ ev.op = "window"
    /\ ev.mac = MAC_X
    /\ stats.msgSuppressed = 1
    /\ fwdAt[MAC_X] = clock
    /\ clock - ev.prevFwd = DEDUP_WINDOW_MS
    /\ usbOut # <<>>

(***************************************************************************)
(* Claims about the printer task and the mesh UART                         *)
(***************************************************************************)
\* C29: when send_to_mesh writes, the bytes it writes, the JSON line and the
\* line end println adds, fit into the free space availableForWrite()
\* reported in the check before.
C29_WriteFitsFreeSpace ==
    (nev.op = "print" /\ nodeMesh # <<>>) => println_bytes(nodeMesh) <= nev.free

\* C30: the printer task takes no time between dequeuing a snapshot and being
\* ready for the next: the step that takes a snapshot off the queue leaves
\* the millisecond clock where it was.  In the map-link build as well.
C30_ConsumerNeverSleeps ==
    [][Len(printQueue') < Len(printQueue) => nodeClock' = nodeClock]_vars

(***************************************************************************)
(* Claims about the hop schedule                                           *)
(***************************************************************************)
\* C31: loop() hops only when now - lastHop >= HOP_INTERVAL_MS; a step
\* without a hop leaves on5GHz, both cursors, lastHop and the radio channel
\* as they were; a hop sets lastHop to now and advances by one (round the
\* list) the cursor of the band it tuned to, and only that cursor.
C31_HopGating ==
    [][IF nHops' # nHops
       THEN /\ U32Sub(nodeClock, lastHop) >= HOP_INTERVAL_MS
            /\ lastHop' = nodeClock
            /\ IF BandOf(radioChannel') = "5"
               THEN /\ chanIdx5' = (chanIdx5 + 1) % NUM_5G_CH
                    /\ chanIdx24' = chanIdx24
               ELSE /\ chanIdx24' = (chanIdx24 + 1) % NUM_24G_CH
                    /\ chanIdx5' = chanIdx5
       ELSE UNCHANGED <<on5GHz, chanIdx24, chanIdx5, lastHop, radioChannel>>]_vars

\* three hops done, and an iteration of loop() that came too early for the
\* fourth has passed
C31_Witness ==
    /\ nHops = 3
    /\ nodeClock - lastHop = HOP_INTERVAL_MS + HOP_INTERVAL_MS \div 2
    /\ chanIdx24 = 2
    /\ chanIdx5 = 1
    /\ on5GHz

\* hops onto each band so far: the hops alternate and start on 2.4 GHz
Hops24 == (nHops + 1) \div 2

Hops5 == nHops \div 2

\* C32: the 2.4 GHz cursor stays in 0..12 and the 5 GHz cursor in 0..24; the
\* k-th hop onto a band (from 0) tunes to that band's list entry k mod its
\* length; each cursor counts the hops onto its own band only.
C32_CursorsWrapIndependently ==
    /\ chanIdx24 \in 0..(NUM_24G_CH - 1)
    /\ chanIdx5 \in 0..(NUM_5G_CH - 1)
    /\ chanIdx24 = Hops24 % NUM_24G_CH
    /\ chanIdx5 = Hops5 % NUM_5G_CH
    /\ hopBand = "2.4" => radioChannel = channels_24g[((Hops24 - 1) % NUM_24G_CH) + 1]
    /\ hopBand = "5" => radioChannel = channels_5g[((Hops5 - 1) % NUM_5G_CH) + 1]

\* the 5 GHz cursor has wrapped once and the 2.4 GHz cursor twice
C32_Witness ==
    /\ nHops = 2 * NUM_5G_CH + 2
    /\ chanIdx5 = 1
    /\ chanIdx24 = 0
    /\ radioChannel = 36

\* C33, as stated: on5GHz is true exactly when the channel the radio was
\* last tuned to is a 5 GHz channel.
C33_FlagIsCurrentBand == on5GHz <=> BandOf(radioChannel) = "5"

\* C33, as the code has it: on5GHz names the band of the next hop.  At
\* startup it is false with the radio on channel 6; after every hop it is
\* true exactly when the radio is on a 2.4 GHz channel; the first hop tunes
\* to channel 1, in the band of the startup channel.
C33_FlagIsNextBand ==
    /\ nHops = 0 => (~on5GHz /\ radioChannel = SETUP_CHANNEL)
    /\ nHops > 0 => (on5GHz <=> BandOf(radioChannel) = "2.4")
    /\ nHops = 1 => (radioChannel = channels_24g[1]
                       /\ BandOf(radioChannel) = BandOf(SETUP_CHANNEL))

\* the first hop is done: the radio is on channel 1 and the flag says 5 GHz
C33_Witness ==
    /\ nHops = 1
    /\ on5GHz
    /\ radioChannel = 1
    /\ lastHop > 0

\* the channels of the latest n hops
HopWindow(n) == {hopLog[i] : i \in (Len(hopLog) - n + 1)..Len(hopLog)}

ListSet(list) == {list[i] : i \in DOMAIN list}

\* every run of 2 * NUM_24G_CH hops has every 2.4 GHz channel, every run of
\* 2 * NUM_5G_CH hops every 5 GHz channel
WindowsCover ==
    /\ Len(hopLog) >= 2 * NUM_24G_CH => ListSet(channels_24g) \subseteq HopWindow(2 * NUM_24G_CH)
    /\ Len(hopLog) >= 2 * NUM_5G_CH => ListSet(channels_5g) \subseteq HopWindow(2 * NUM_5G_CH)

\* C34: with loop() kept running, every channel of both lists comes to be
\* selected, and again in every later run of hops: any 26 hops in a row
\* have all 2.4 GHz channels and any 50 hops in a row all 5 GHz channels.
C34_SweepCoverage ==
    /\ []WindowsCover
    /\ <>(Len(hopLog) = HOP_LOG_LEN
            /\ ListSet(channels_24g) \cup ListSet(channels_5g) \subseteq HopWindow(HOP_LOG_LEN))
    /\ \A k \in {HOP_LOG_LEN, MaxSweepHops - HOP_LOG_LEN} :
          (nHops = k) ~> (nHops = k + HOP_LOG_LEN /\ WindowsCover)

\* fifty hops after the first fifty, the log again holds every channel
C34_Witness ==
    /\ nHops = 2 * HOP_LOG_LEN
    /\ Len(hopLog) = HOP_LOG_LEN
    /\ HopWindow(HOP_LOG_LEN) = ListSet(channels_24g) \cup ListSet(channels_5g)
    /\ hopLog[1] = channels_24g[((HOP_LOG_LEN \div 2) % NUM_24G_CH) + 1]

(***************************************************************************)
(* Claims about what the callbacks take from a frame                       *)
(***************************************************************************)
\* C35: a BLE advertisement whose message type is none of Basic ID,
\* Location, System and Operator ID changes no slot of uavs[] and puts no
\* snapshot into the queue.
C35_UnknownTypeIgnored ==
    \A m \in {M_A, M_B} :
        LET n == AfterBle(BleAdv(m, SVC_FULL, "other", 1))
        IN  /\ n.uavs = uavs
            /\ n.queue = printQueue

\* what a frame's one pack decodes to by itself
PackAlone(pack) == odid_message_process_pack(ZeroUas, pack)

\* C36: the record wifiCallback stores and enqueues for a NAN action frame or
\* a beacon holds what that frame's pack decodes to and nothing else:
\* nothing of what UAS_data held from earlier frames.
C36_DecodeOnlyThisFrame ==
    \A f \in {w \in MergeFrames : w.type = "mgmt" /\ Len(w.packs) = 1} :
        LET n == AfterWifi(f)
            own == [WifiUav(f.mac, PackAlone(f.packs[1]), nodeClock) EXCEPT !.flag = 1]
        IN  /\ n.uavs[n.nev.slot] = own
            /\ n.nev.queued => Enqueued(n) = own

\* snapshots a callback handed to the queue, accepted or dropped
Offered(n) == (n.enq + n.drop) - (enqCount + dropCount)

\* C37: one management frame is merged into uavs[] at most once and offers
\* the queue at most one snapshot, however many Remote-ID elements it has; a
\* beacon with one such element offers exactly one, with the frame's source
\* address as its MAC.
C37_OneRecordPerFrame ==
    \A f \in MergeFrames :
        LET n == AfterWifi(f)
        IN  /\ Offered(n) <= 1
            /\ (f.type = "mgmt" /\ f.carrier = "beacon" /\ Len(f.packs) = 1)
                   => /\ Offered(n) = 1
                      /\ n.nev.mac = f.mac
                      /\ n.nev.queued => Enqueued(n).mac = f.mac

(***************************************************************************)
(* Claims about the sweep                                                  *)
(***************************************************************************)
\* no entry is active at the end of an iteration of loop() whose `now` is
\* more than the stale threshold and a sweep interval past its last record
SweptInTime ==
    hpc = "top" =>
        \A i \in Slots :
            dedupTable[i].active =>
                loopNow - dedupTable[i].lastSeen <= DEDUP_STALE_MS + CLEANUP_INTERVAL_MS

\* a sweep runs in the iteration in which it is due, with the iteration's
\* `now`, and deactivates every entry last seen more than DEDUP_STALE_MS
\* before it
SweepStep ==
    (hpc = "body" /\ hpc' = "top") =>
        IF loopNow - lastCleanup >= CLEANUP_INTERVAL_MS
        THEN /\ ev'.op = "sweep"
             /\ lastCleanup' = loopNow
             /\ \A i \in Slots :
                   loopNow - dedupTable[i].lastSeen > DEDUP_STALE_MS
                       => ~dedupTable'[i].active
        ELSE dedupTable' = dedupTable

\* a record of a MAC without entry takes the first inactive slot, and every
\* active entry stays as it is
FreedSlotReused ==
    (InactiveSlots # {} /\ EntriesOf(dedupTable, MAC_Y) = {}) =>
        LET h == AfterLine(Record(MAC_Y, NODE_1))
            first == CHOOSE i \in InactiveSlots : \A j \in InactiveSlots : i <= j
        IN  /\ h.table[first].active /\ h.table[first].mac = MAC_Y
            /\ \A i \in Slots \ {first} : h.table[i] = dedupTable[i]

XOverdue ==
    \E i \in XEntries :
        clock - dedupTable[i].lastSeen > DEDUP_STALE_MS + CLEANUP_INTERVAL_MS

\* C38: an entry that gets no further record is deactivated by the first
\* sweep whose `now` is more than DEDUP_STALE_MS after its lastSeen; a sweep
\* runs in every iteration of loop() that finds CLEANUP_INTERVAL_MS passed
\* since the last one, so with loop() running the entry does not stay
\* active; the slot it frees is taken by the next new MAC with every active
\* entry left in place.
C38_StaleEntriesFreed ==
    /\ []SweptInTime
    /\ [][SweepStep]_vars
    /\ []FreedSlotReused
    /\ XOverdue ~> ~XOverdue

\* X, forwarded once and not heard again, was deactivated by a sweep whose
\* `now` was the stale threshold and a sweep interval after its record
C38_Witness ==
    /\ ev.op = "sweep"
    /\ \E i \in Slots : /\ dedupTable[i].mac = MAC_X
                        /\ ~dedupTable[i].active
                        /\ loopNow - dedupTable[i].lastSeen
                              = DEDUP_STALE_MS + CLEANUP_INTERVAL_MS
    /\ stats.msgForwarded = 1

(***************************************************************************)
(* Claims about drops                                                      *)
(***************************************************************************)
\* what the detector node keeps from one callback or task turn to the next,
\* the queue aside: the table, the decode buffer, the hop state, the time
\* of the last heartbeat and of the last map-link message
DetectorKept == <<uavs, UAS_data, on5GHz, chanIdx24, chanIdx5, lastHop, radioChannel,
                  last_status, lastSendTime>>

\* C39: a snapshot dropped at the full queue, and a line dropped on the mesh
\* path for want of room in the transport, each leave a count in what the
\* detector node keeps.
C39_DropsCounted ==
    [][/\ dropCount' > dropCount
           => <<DetectorKept, printQueue>>' # <<DetectorKept, printQueue>>
       /\ (nev'.op = "print" /\ nodeMesh' = <<>>)
           => DetectorKept' # DetectorKept]_vars

(***************************************************************************)
(* Claims about the suppressed count                                       *)
(***************************************************************************)
\* C40: an active entry's dupsBlocked is the number of records of its MAC
\* suppressed since its window opened, however many they are.  While one
\* window only has been opened (one record forwarded so far), every record
\* suppressed so far was suppressed in that window, and their number is
\* msgSuppressed.
C40_SuppressedCountExact ==
    \A i \in Slots :
        (dedupTable[i].active /\ stats.msgForwarded = 1)
            => dedupTable[i].dupsBlocked = stats.msgSuppressed

====
